---- MODULE Spec2Model ----
(***************************************************************************)
(* Model of termui (mic006/termui): the csys::MainPollHandler event loop   *)
(* (src/src/csys.h, src/src/csys.cpp) and the tty input decoder of TermUi  *)
(* (src/src/termui.cpp, src/src/termui_internal.h,                          *)
(* src/src/termui_internal.cpp, src/src/termui_input_esc_seq.inl).         *)
(*                                                                         *)
(* The specifications of the module:                                       *)
(*   Spec / FairSpec : the main loop, its wakeup event-fd, the signal-fd   *)
(*                     dispatcher and threads calling requestTermination;  *)
(*   SpecInput       : the tty read handler, one action per iteration of   *)
(*                     its while loop, with bytes arriving on the tty at   *)
(*                     any moment and in any fragmentation;                *)
(*   SpecEsc         : the same handler on ESC followed by each sequence   *)
(*                     of the generated escape-sequence parser;            *)
(*   SpecModKeys, SpecCodepoints : the same handler on Insert and Delete   *)
(*                     with a modifier, and on single codepoints;          *)
(*   SpecSearch      : the same handler on ESC followed by the prefixes of *)
(*                     the sequences and other bytes, to compare the       *)
(*                     parser with the search in the table of keys;        *)
(*   SpecPoll        : Poll::add, Poll::remove and closed descriptors;     *)
(*   SpecDispatch    : Poll::waitAndProcessEvents with handlers that       *)
(*                     remove descriptors;                                 *)
(*   SpecPaint, SpecAlign, SpecFormat : the painters of TermUi on the      *)
(*                     framebuffer;                                        *)
(*   SpecTty / FairSpecTty : the life of a TermUi object and the bytes it  *)
(*                     writes to the tty (publish, txFlush);               *)
(*   SpecSize        : the same object in a window that changes size, with *)
(*                     resets and changes of the default colours.          *)
(***************************************************************************)
EXTENDS Integers, Sequences, FiniteSets, TLC

VARIABLES
    \* ---- csys::MainPollHandler ----
    m_exitRequested,   \* std::atomic<bool> m_exitRequested
    m_exitStatus,      \* int m_exitStatus
    m_signalCbks,      \* keys of std::map<int, SignalEventCallback>
    unlockCount,       \* counter of the event-fd m_unlockEventfd
    sigPending,        \* signals pending on the signal-fd m_signalFd
    userReady,         \* the user descriptor (the tty) is readable
    loopPc,            \* position of the loop thread
    batch,             \* events[] of the current epoll_wait, not yet processed
    fdsi,              \* signo of the record read by signalHandlerDispatch
    retVal,            \* value returned by runForever
    thrPc,             \* position of each thread inside requestTermination
    thrStatus,         \* exitStatus argument of each thread
    \* ---- history of the loop ----
    callLog,           \* user callbacks invoked, in order
    firstStatus,       \* status of the request whose exchange() returned false
    sigTermStatus,     \* signo with which the signal dispatcher set the exit flag
    termDone,          \* a requestTermination call returned while the loop was blocked
    nbUserEvents,      \* number of times the user descriptor became readable
    nbSignals,         \* number of signals raised
    \* ---- termui::internal::ScopedBufferedTty / TermUi::readTtyHandler ----
    input,             \* the whole byte stream the terminal will send
    arrived,           \* how many bytes of input reached the tty queue
    nbRead,            \* how many bytes of input were read into m_rxBuffer
    m_rxBuffer,        \* the m_rxFilled first bytes of m_rxBuffer, with their stream index
    m_rxMbState,       \* bytes absorbed by the UTF-8 decoder state
    mbErrKeepsState,   \* libc leaves the mbstate untouched on EILSEQ (else resets it)
    ttyPc,             \* position of readTtyHandler
    events,            \* events given to m_app.eventHandler, in order
    lastIter,          \* what the last iteration of the handler loop did
    \* ---- csys::Poll ----
    m_monitoredFds,    \* std::map<int, PollFdContext>: descriptor -> handler
    epollSet,          \* the interest list of m_epollFd, kept by the kernel
    pollLast,          \* the last call to Poll::add or Poll::remove and how it ended
    pollPc,            \* position of Poll::waitAndProcessEvents
    pollEvents,        \* events[] of waitAndProcessEvents: the descriptors reported
    pollIndex,         \* the loop counter i of waitAndProcessEvents, from 1
    pollCalls,         \* descriptors whose handler the current call has invoked
    \* ---- termui::TermUi, the framebuffer and its painters ----
    termSize,          \* the size of the terminal window (what TIOCGWINSZ answers)
    m_tty,             \* m_tty.width and m_tty.height, set by retrieveSize
    m_frameBuffer,     \* std::vector<Cell> m_frameBuffer, cell k at index k + 1
    m_colorFg,         \* Color m_colorFg
    m_colorBg,         \* Color m_colorBg
    appOnly,           \* the only painter call the application makes, if not NoCall
    nbPaints,          \* painter calls since the last reset
    lastOp,            \* the last call on the TermUi object, its arguments and outcome
    \* ---- termui::internal::ScopedBufferedTty, the output side ----
    objPc,             \* where the TermUi object is in its life
    termios,           \* the termios settings of the tty: "orig" or "raw"
    m_txBuffer,        \* std::vector<char> m_txBuffer
    txSent,            \* the local sent of the txFlush in progress
    txFlushed,         \* the content of m_txBuffer when the last txFlush started
    txResult,          \* how the last write of txFlush ended
    nbPartial,         \* partial writes of the txFlush in progress
    nbPublish,         \* calls of publish by the application
    ttyOut,            \* the bytes the tty received from the last txFlush
    ttyStart           \* the first bytes the tty received from the object

loopVars == <<m_exitRequested, m_exitStatus, m_signalCbks, unlockCount, sigPending,
              userReady, loopPc, batch, fdsi, retVal, thrPc, thrStatus,
              callLog, firstStatus, sigTermStatus, termDone, nbUserEvents, nbSignals>>

inputVars == <<input, arrived, nbRead, m_rxBuffer, m_rxMbState, mbErrKeepsState,
               ttyPc, events, lastIter>>

pollVars == <<m_monitoredFds, epollSet, pollLast, pollPc, pollEvents, pollIndex,
              pollCalls>>

paintVars == <<termSize, m_tty, m_frameBuffer, m_colorFg, m_colorBg, appOnly,
               nbPaints, lastOp>>

ttyVars == <<objPc, termios, m_txBuffer, txSent, txFlushed, txResult, nbPartial,
             nbPublish, ttyOut, ttyStart>>

notLoopVars == <<inputVars, pollVars, paintVars, ttyVars>>
notInputVars == <<loopVars, pollVars, paintVars, ttyVars>>
notPollVars == <<loopVars, inputVars, paintVars, ttyVars>>
notPaintVars == <<loopVars, inputVars, pollVars, ttyVars>>
notTtyVars == <<loopVars, inputVars, pollVars>>

vars == <<loopVars, inputVars, pollVars, paintVars, ttyVars>>

(***************************************************************************)
(* Bounds of the model                                                     *)
(***************************************************************************)
MaxUserEvents == 1
MaxSignals == 2
MaxTokens == 2

(***************************************************************************)
(* Program constants                                                       *)
(***************************************************************************)
EXIT_SUCCESS == 0
SIGINT == 2
SIGWINCH == 28
NoValue == 0 - 1

Threads == {"t1", "t2"}
\* The exit status each thread passes to requestTermination.
ThreadStatus == [t \in Threads |-> IF t = "t1" THEN 5 ELSE 7]
Signals == {SIGINT, SIGWINCH}

(***************************************************************************)
(* csys::MainPollHandler                                                   *)
(***************************************************************************)

\* Descriptors epoll reports readable (level-triggered): the event-fd while its
\* counter is not zero, the signal-fd while a captured signal is pending, the
\* user descriptor while it has data.
Ready ==
    (IF unlockCount > 0 THEN {"unlock"} ELSE {}) \cup
    (IF sigPending # {} THEN {"signal"} ELSE {}) \cup
    (IF userReady THEN {"user"} ELSE {})

\* The orders in which epoll_wait may fill events[] with the descriptors of S.
Orders(S) ==
    {p \in [1..Cardinality(S) -> S] : \A i, j \in DOMAIN p : i # j => p[i] # p[j]}

\* ScopedFd::eventfdWrite: eventfd_write adds value to the counter.
eventfdWrite_lost(count, value) == count
eventfdWrite(count, value) == count + value

\* ScopedFd::eventfdRead: eventfd_read (no EFD_SEMAPHORE) resets the counter.
eventfdRead(count) == 0

\* MainPollHandler::setRequestTermination, the value m_exitStatus has after it:
\* old is what m_exitRequested.exchange(true) returned.
recordStatus_never(old, status, exitStatus) == status
recordStatus(old, status, exitStatus) == IF ~old THEN exitStatus ELSE status

InitLoop ==
    /\ m_exitRequested = FALSE
    /\ m_exitStatus = EXIT_SUCCESS
    /\ m_signalCbks = {}
    /\ unlockCount = 0
    /\ sigPending = {}
    /\ userReady = FALSE
    /\ loopPc = "setup"
    /\ batch = <<>>
    /\ fdsi = NoValue
    /\ retVal = NoValue
    /\ thrPc = [t \in Threads |-> "idle"]
    /\ thrStatus = [t \in Threads |-> NoValue]
    /\ callLog = <<>>
    /\ firstStatus = NoValue
    /\ sigTermStatus = NoValue
    /\ termDone = FALSE
    /\ nbUserEvents = 0
    /\ nbSignals = 0

\* MainPollHandler::registerSignalHandler, called while the application sets up
\* (TermUi's constructor registers SIGWINCH).
registerSignalHandler(sig) ==
    /\ loopPc = "setup"
    /\ sig \notin m_signalCbks
    /\ m_signalCbks' = m_signalCbks \cup {sig}
    /\ UNCHANGED notLoopVars
    /\ UNCHANGED <<m_exitRequested, m_exitStatus, unlockCount, sigPending, userReady,
                   loopPc, batch, fdsi, retVal, thrPc, thrStatus, callLog, firstStatus,
                   sigTermStatus, termDone, nbUserEvents, nbSignals>>

\* The application calls runForever.
runForever ==
    /\ loopPc = "setup"
    /\ loopPc' = "test"
    /\ UNCHANGED notLoopVars
    /\ UNCHANGED <<m_exitRequested, m_exitStatus, m_signalCbks, unlockCount, sigPending,
                   userReady, batch, fdsi, retVal, thrPc, thrStatus, callLog, firstStatus,
                   sigTermStatus, termDone, nbUserEvents, nbSignals>>

\* runForever: while (not m_exitRequested.load())
LoopTest ==
    /\ loopPc = "test"
    /\ loopPc' = IF m_exitRequested THEN "ret" ELSE "wait"
    /\ UNCHANGED notLoopVars
    /\ UNCHANGED <<m_exitRequested, m_exitStatus, m_signalCbks, unlockCount, sigPending,
                   userReady, batch, fdsi, retVal, thrPc, thrStatus, callLog, firstStatus,
                   sigTermStatus, termDone, nbUserEvents, nbSignals>>

\* runForever: return m_exitStatus (a plain int, read after the atomic load).
LoopReturn ==
    /\ loopPc = "ret"
    /\ retVal' = m_exitStatus
    /\ loopPc' = "done"
    /\ UNCHANGED notLoopVars
    /\ UNCHANGED <<m_exitRequested, m_exitStatus, m_signalCbks, unlockCount, sigPending,
                   userReady, batch, fdsi, thrPc, thrStatus, callLog, firstStatus,
                   sigTermStatus, termDone, nbUserEvents, nbSignals>>

\* Poll::waitAndProcessEvents: epoll_wait(timeout -1) returns the ready descriptors.
WaitReturn ==
    /\ loopPc = "wait"
    /\ Ready # {}
    /\ batch' \in Orders(Ready)
    /\ loopPc' = "dispatch"
    /\ UNCHANGED notLoopVars
    /\ UNCHANGED <<m_exitRequested, m_exitStatus, m_signalCbks, unlockCount, sigPending,
                   userReady, fdsi, retVal, thrPc, thrStatus, callLog, firstStatus,
                   sigTermStatus, termDone, nbUserEvents, nbSignals>>

\* Poll::waitAndProcessEvents: epoll_wait fails with EINTR, no event is processed.
WaitEINTR ==
    /\ loopPc = "wait"
    /\ loopPc' = "test"
    /\ UNCHANGED notLoopVars
    /\ UNCHANGED <<m_exitRequested, m_exitStatus, m_signalCbks, unlockCount, sigPending,
                   userReady, batch, fdsi, retVal, thrPc, thrStatus, callLog, firstStatus,
                   sigTermStatus, termDone, nbUserEvents, nbSignals>>

\* Poll::waitAndProcessEvents: all events of the batch were processed.
DispatchEnd ==
    /\ loopPc = "dispatch"
    /\ batch = <<>>
    /\ loopPc' = "test"
    /\ UNCHANGED notLoopVars
    /\ UNCHANGED <<m_exitRequested, m_exitStatus, m_signalCbks, unlockCount, sigPending,
                   userReady, batch, fdsi, retVal, thrPc, thrStatus, callLog, firstStatus,
                   sigTermStatus, termDone, nbUserEvents, nbSignals>>

\* MainPollHandler::unlockHandler, called for the event-fd of the batch.
unlockHandler ==
    /\ loopPc = "dispatch"
    /\ batch # <<>>
    /\ Head(batch) = "unlock"
    /\ unlockCount' = eventfdRead(unlockCount)
    /\ batch' = Tail(batch)
    /\ UNCHANGED notLoopVars
    /\ UNCHANGED <<m_exitRequested, m_exitStatus, m_signalCbks, sigPending, userReady,
                   loopPc, fdsi, retVal, thrPc, thrStatus, callLog, firstStatus,
                   sigTermStatus, termDone, nbUserEvents, nbSignals>>

\* The callback of the user descriptor (TermUi registers readTtyHandler), called
\* for the user descriptor of the batch; it consumes what is readable.
userHandler ==
    /\ loopPc = "dispatch"
    /\ batch # <<>>
    /\ Head(batch) = "user"
    /\ callLog' = Append(callLog, [kind |-> "fd", arg |-> NoValue,
                                   requested |-> m_exitRequested, afterTerm |-> termDone])
    /\ userReady' = FALSE
    /\ batch' = Tail(batch)
    /\ UNCHANGED notLoopVars
    /\ UNCHANGED <<m_exitRequested, m_exitStatus, m_signalCbks, unlockCount, sigPending,
                   loopPc, fdsi, retVal, thrPc, thrStatus, firstStatus,
                   sigTermStatus, termDone, nbUserEvents, nbSignals>>

\* MainPollHandler::signalHandlerDispatch, first part: read one signalfd_siginfo
\* and load m_exitRequested.
signalHandlerRead_drain ==
    /\ loopPc = "dispatch"
    /\ batch # <<>>
    /\ Head(batch) = "signal"
    /\ \E sig \in sigPending :
        /\ fdsi' = sig
        /\ sigPending' = {}
    /\ batch' = Tail(batch)
    /\ loopPc' = IF ~m_exitRequested THEN "sigact" ELSE "dispatch"
    /\ UNCHANGED notLoopVars
    /\ UNCHANGED <<m_exitRequested, m_exitStatus, m_signalCbks, unlockCount, userReady,
                   retVal, thrPc, thrStatus, callLog, firstStatus,
                   sigTermStatus, termDone, nbUserEvents, nbSignals>>
signalHandlerRead ==
    /\ loopPc = "dispatch"
    /\ batch # <<>>
    /\ Head(batch) = "signal"
    /\ \E sig \in sigPending :
        /\ fdsi' = sig
        /\ sigPending' = sigPending \ {sig}
    /\ batch' = Tail(batch)
    /\ loopPc' = IF ~m_exitRequested THEN "sigact" ELSE "dispatch"
    /\ UNCHANGED notLoopVars
    /\ UNCHANGED <<m_exitRequested, m_exitStatus, m_signalCbks, unlockCount, userReady,
                   retVal, thrPc, thrStatus, callLog, firstStatus,
                   sigTermStatus, termDone, nbUserEvents, nbSignals>>

\* MainPollHandler::signalHandlerDispatch, second part: the callback of the signal
\* if there is one, else setRequestTermination(signo).
signalHandlerAct ==
    /\ loopPc = "sigact"
    /\ IF fdsi \in m_signalCbks
       THEN /\ callLog' = Append(callLog, [kind |-> "sig", arg |-> fdsi,
                                           requested |-> m_exitRequested,
                                           afterTerm |-> termDone])
            /\ UNCHANGED <<m_exitRequested, m_exitStatus, firstStatus, sigTermStatus>>
       ELSE /\ m_exitRequested' = TRUE
            /\ m_exitStatus' = recordStatus(m_exitRequested, m_exitStatus, fdsi)
            /\ firstStatus' = IF ~m_exitRequested THEN fdsi ELSE firstStatus
            /\ sigTermStatus' = IF ~m_exitRequested THEN fdsi ELSE sigTermStatus
            /\ UNCHANGED callLog
    /\ loopPc' = "dispatch"
    /\ UNCHANGED notLoopVars
    /\ UNCHANGED <<m_signalCbks, unlockCount, sigPending, userReady, batch, fdsi, retVal,
                   thrPc, thrStatus, termDone, nbUserEvents, nbSignals>>

\* A thread enters requestTermination(ThreadStatus[t]): setRequestTermination's
\* m_exitRequested.exchange(true).
requestTermination(t) ==
    /\ thrPc[t] = "idle"
    /\ thrStatus' = [thrStatus EXCEPT ![t] = ThreadStatus[t]]
    /\ m_exitRequested' = TRUE
    /\ thrPc' = [thrPc EXCEPT ![t] = IF ~m_exitRequested THEN "store" ELSE "write"]
    /\ firstStatus' = IF ~m_exitRequested THEN ThreadStatus[t] ELSE firstStatus
    /\ UNCHANGED notLoopVars
    /\ UNCHANGED <<m_exitStatus, m_signalCbks, unlockCount, sigPending, userReady, loopPc,
                   batch, fdsi, retVal, callLog, sigTermStatus, termDone,
                   nbUserEvents, nbSignals>>

\* setRequestTermination in the thread whose exchange returned false:
\* m_exitStatus = exitStatus.
storeExitStatus(t) ==
    /\ thrPc[t] = "store"
    /\ m_exitStatus' = recordStatus(FALSE, m_exitStatus, thrStatus[t])
    /\ thrPc' = [thrPc EXCEPT ![t] = "write"]
    /\ UNCHANGED notLoopVars
    /\ UNCHANGED <<m_exitRequested, m_signalCbks, unlockCount, sigPending, userReady,
                   loopPc, batch, fdsi, retVal, thrStatus, callLog, firstStatus,
                   sigTermStatus, termDone, nbUserEvents, nbSignals>>

\* requestTermination: m_unlockEventfd.eventfdWrite(1), then the call returns.
wakeLoop(t) ==
    /\ thrPc[t] = "write"
    /\ unlockCount' = eventfdWrite(unlockCount, 1)
    /\ thrPc' = [thrPc EXCEPT ![t] = "done"]
    /\ termDone' = (termDone \/ (loopPc = "wait" /\ Ready = {}))
    /\ UNCHANGED notLoopVars
    /\ UNCHANGED <<m_exitRequested, m_exitStatus, m_signalCbks, sigPending, userReady,
                   loopPc, batch, fdsi, retVal, thrStatus, callLog, firstStatus,
                   sigTermStatus, nbUserEvents, nbSignals>>

\* The kernel: a captured signal becomes pending on the signal-fd.
RaiseSignal(sig) ==
    /\ nbSignals < MaxSignals
    /\ sig \notin sigPending
    /\ sigPending' = sigPending \cup {sig}
    /\ nbSignals' = nbSignals + 1
    /\ UNCHANGED notLoopVars
    /\ UNCHANGED <<m_exitRequested, m_exitStatus, m_signalCbks, unlockCount, userReady,
                   loopPc, batch, fdsi, retVal, thrPc, thrStatus, callLog, firstStatus,
                   sigTermStatus, termDone, nbUserEvents>>

\* The kernel: the user descriptor becomes readable.
UserFdReadable ==
    /\ nbUserEvents < MaxUserEvents
    /\ ~userReady
    /\ userReady' = TRUE
    /\ nbUserEvents' = nbUserEvents + 1
    /\ UNCHANGED notLoopVars
    /\ UNCHANGED <<m_exitRequested, m_exitStatus, m_signalCbks, unlockCount, sigPending,
                   loopPc, batch, fdsi, retVal, thrPc, thrStatus, callLog, firstStatus,
                   sigTermStatus, termDone, nbSignals>>

\* The steps of the loop thread inside runForever.
LoopStep ==
    \/ runForever
    \/ LoopTest
    \/ LoopReturn
    \/ WaitReturn
    \/ DispatchEnd
    \/ unlockHandler
    \/ userHandler
    \/ signalHandlerRead
    \/ signalHandlerAct

\* The steps of a thread that has entered requestTermination.
ThreadStep(t) ==
    \/ storeExitStatus(t)
    \/ wakeLoop(t)

Next ==
    \/ \E sig \in Signals : registerSignalHandler(sig)
    \/ LoopStep
    \/ WaitEINTR
    \/ \E t \in Threads : requestTermination(t)
    \/ \E t \in Threads : ThreadStep(t)
    \/ \E sig \in Signals : RaiseSignal(sig)
    \/ UserFdReadable


(***************************************************************************)
(* termui::Event                                                           *)
(***************************************************************************)
ctrlMask == 1073741824      \* 0x40000000
altMask == 536870912        \* 0x20000000
shiftMask == 268435456      \* 0x10000000
specialMask == 134217728    \* 0x08000000
kEscape == 27               \* '\e'

\* The special keys of Event (the modified keys are mask | key).
Key == [
    kArrowUp |-> specialMask + 1, kArrowDown |-> specialMask + 2,
    kArrowRight |-> specialMask + 3, kArrowLeft |-> specialMask + 4,
    kInsert |-> specialMask + 5, kDelete |-> specialMask + 6,
    kEnd |-> specialMask + 7, kHome |-> specialMask + 8,
    kPageUp |-> specialMask + 9, kPageDown |-> specialMask + 10,
    kKeypadCenter |-> specialMask + 11,
    kF1 |-> specialMask + 257, kF2 |-> specialMask + 258, kF3 |-> specialMask + 259,
    kF4 |-> specialMask + 260, kF5 |-> specialMask + 261, kF6 |-> specialMask + 262,
    kF7 |-> specialMask + 263, kF8 |-> specialMask + 264, kF9 |-> specialMask + 265,
    kF10 |-> specialMask + 266, kF11 |-> specialMask + 267, kF12 |-> specialMask + 268,
    kShiftEnter |-> shiftMask + 254, kShiftTab |-> shiftMask + 255
]

\* Event::fromCtrl(letterOffset): ctrlMask | ('A' + letterOffset)
fromCtrl_lowerCase(letterOffset) == ctrlMask + (97 + letterOffset)
fromCtrl(letterOffset) == ctrlMask + (65 + letterOffset)

(***************************************************************************)
(* identify_esc_seq, the generated parser (a trie over the bytes after ESC) *)
(***************************************************************************)

\* The leaves of the trie: the path of case labels and the event returned there;
\* consumed is the length of the path.
EscSeqTrie == {
    [seq |-> <<79, 65>>, event |-> Key.kArrowUp],  \* kArrowUp: ESC OA
    [seq |-> <<79, 66>>, event |-> Key.kArrowDown],  \* kArrowDown: ESC OB
    [seq |-> <<79, 67>>, event |-> Key.kArrowRight],  \* kArrowRight: ESC OC
    [seq |-> <<79, 68>>, event |-> Key.kArrowLeft],  \* kArrowLeft: ESC OD
    [seq |-> <<79, 70>>, event |-> Key.kEnd],  \* kEnd: ESC OF
    [seq |-> <<79, 72>>, event |-> Key.kHome],  \* kHome: ESC OH
    [seq |-> <<79, 80>>, event |-> Key.kF1],  \* kF1: ESC OP
    [seq |-> <<79, 81>>, event |-> Key.kF2],  \* kF2: ESC OQ
    [seq |-> <<79, 82>>, event |-> Key.kF3],  \* kF3: ESC OR
    [seq |-> <<79, 83>>, event |-> Key.kF4],  \* kF4: ESC OS
    [seq |-> <<79, 77>>, event |-> Key.kShiftEnter],  \* kShiftEnter: ESC OM
    [seq |-> <<91, 50, 126>>, event |-> Key.kInsert],  \* kInsert: ESC [2~
    [seq |-> <<91, 50, 48, 126>>, event |-> Key.kF9],  \* kF9: ESC [20~
    [seq |-> <<91, 50, 49, 126>>, event |-> Key.kF10],  \* kF10: ESC [21~
    [seq |-> <<91, 50, 51, 126>>, event |-> Key.kF11],  \* kF11: ESC [23~
    [seq |-> <<91, 50, 52, 126>>, event |-> Key.kF12],  \* kF12: ESC [24~
    [seq |-> <<91, 50, 59, 49, 126>>, event |-> altMask + Key.kInsert],  \* kAltInsert: ESC [2;1~
    [seq |-> <<91, 50, 59, 53, 126>>, event |-> ctrlMask + Key.kInsert],  \* kCtrlInsert: ESC [2;5~
    [seq |-> <<91, 51, 126>>, event |-> Key.kDelete],  \* kDelete: ESC [3~
    [seq |-> <<91, 51, 59, 50, 126>>, event |-> shiftMask + Key.kDelete],  \* kShiftDelete: ESC [3;2~
    [seq |-> <<91, 51, 59, 49, 126>>, event |-> altMask + Key.kDelete],  \* kAltDelete: ESC [3;1~
    [seq |-> <<91, 51, 59, 53, 126>>, event |-> ctrlMask + Key.kDelete],  \* kCtrlDelete: ESC [3;5~
    [seq |-> <<91, 53, 126>>, event |-> Key.kPageUp],  \* kPageUp: ESC [5~
    [seq |-> <<91, 53, 59, 49, 126>>, event |-> altMask + Key.kPageUp],  \* kAltPageUp: ESC [5;1~
    [seq |-> <<91, 53, 59, 53, 126>>, event |-> ctrlMask + Key.kPageUp],  \* kCtrlPageUp: ESC [5;5~
    [seq |-> <<91, 54, 126>>, event |-> Key.kPageDown],  \* kPageDown: ESC [6~
    [seq |-> <<91, 54, 59, 49, 126>>, event |-> altMask + Key.kPageDown],  \* kAltPageDown: ESC [6;1~
    [seq |-> <<91, 54, 59, 53, 126>>, event |-> ctrlMask + Key.kPageDown],  \* kCtrlPageDown: ESC [6;5~
    [seq |-> <<91, 69>>, event |-> Key.kKeypadCenter],  \* kKeypadCenter: ESC [E
    [seq |-> <<91, 49, 53, 126>>, event |-> Key.kF5],  \* kF5: ESC [15~
    [seq |-> <<91, 49, 55, 126>>, event |-> Key.kF6],  \* kF6: ESC [17~
    [seq |-> <<91, 49, 56, 126>>, event |-> Key.kF7],  \* kF7: ESC [18~
    [seq |-> <<91, 49, 57, 126>>, event |-> Key.kF8],  \* kF8: ESC [19~
    [seq |-> <<91, 49, 59, 50, 65>>, event |-> shiftMask + Key.kArrowUp],  \* kShiftArrowUp: ESC [1;2A
    [seq |-> <<91, 49, 59, 50, 66>>, event |-> shiftMask + Key.kArrowDown],  \* kShiftArrowDown: ESC [1;2B
    [seq |-> <<91, 49, 59, 50, 67>>, event |-> shiftMask + Key.kArrowRight],  \* kShiftArrowRight: ESC [1;2C
    [seq |-> <<91, 49, 59, 50, 68>>, event |-> shiftMask + Key.kArrowLeft],  \* kShiftArrowLeft: ESC [1;2D
    [seq |-> <<91, 49, 59, 50, 70>>, event |-> shiftMask + Key.kEnd],  \* kShiftEnd: ESC [1;2F
    [seq |-> <<91, 49, 59, 50, 72>>, event |-> shiftMask + Key.kHome],  \* kShiftHome: ESC [1;2H
    [seq |-> <<91, 49, 59, 49, 65>>, event |-> altMask + Key.kArrowUp],  \* kAltArrowUp: ESC [1;1A
    [seq |-> <<91, 49, 59, 49, 66>>, event |-> altMask + Key.kArrowDown],  \* kAltArrowDown: ESC [1;1B
    [seq |-> <<91, 49, 59, 49, 67>>, event |-> altMask + Key.kArrowRight],  \* kAltArrowRight: ESC [1;1C
    [seq |-> <<91, 49, 59, 49, 68>>, event |-> altMask + Key.kArrowLeft],  \* kAltArrowLeft: ESC [1;1D
    [seq |-> <<91, 49, 59, 49, 70>>, event |-> altMask + Key.kEnd],  \* kAltEnd: ESC [1;1F
    [seq |-> <<91, 49, 59, 49, 72>>, event |-> altMask + Key.kHome],  \* kAltHome: ESC [1;1H
    [seq |-> <<91, 49, 59, 53, 65>>, event |-> ctrlMask + Key.kArrowUp],  \* kCtrlArrowUp: ESC [1;5A
    [seq |-> <<91, 49, 59, 53, 66>>, event |-> ctrlMask + Key.kArrowDown],  \* kCtrlArrowDown: ESC [1;5B
    [seq |-> <<91, 49, 59, 53, 67>>, event |-> ctrlMask + Key.kArrowRight],  \* kCtrlArrowRight: ESC [1;5C
    [seq |-> <<91, 49, 59, 53, 68>>, event |-> ctrlMask + Key.kArrowLeft],  \* kCtrlArrowLeft: ESC [1;5D
    [seq |-> <<91, 49, 59, 53, 70>>, event |-> ctrlMask + Key.kEnd],  \* kCtrlEnd: ESC [1;5F
    [seq |-> <<91, 49, 59, 53, 72>>, event |-> ctrlMask + Key.kHome],  \* kCtrlHome: ESC [1;5H
    [seq |-> <<91, 90>>, event |-> Key.kShiftTab]   \* kShiftTab: ESC [Z
}

IsPrefix(p, q) == Len(p) <= Len(q) /\ \A k \in 1..Len(p) : p[k] = q[k]

\* The inner nodes of the trie: the paths on which a switch is nested.
EscSeqInner ==
    {SubSeq(e.seq, 1, n) : <<e, n>> \in {<<e, n>> \in EscSeqTrie \X (0..4) : n < Len(e.seq)}}

\* The walk of the nested switches: at depth d the parser has matched d - 1 bytes
\* and looks at data[d - 1] if size >= d; a leaf returns, an unknown byte or the
\* end of the data falls out of the switches to "return 0".
RECURSIVE escWalk(_, _)
escWalk(data, d) ==
    IF Len(data) < d
    THEN [event |-> 0, consumed |-> 0]
    ELSE LET path == SubSeq(data, 1, d)
             leaf == {e \in EscSeqTrie : e.seq = path}
         IN  IF leaf # {}
             THEN [event |-> (CHOOSE e \in leaf : TRUE).event, consumed |-> d]
             ELSE IF path \in EscSeqInner
                  THEN escWalk(data, d + 1)
                  ELSE [event |-> 0, consumed |-> 0]

identify_esc_seq_short(data) ==
    LET r == escWalk(data, 1)
    IN  [event |-> r.event, consumed |-> IF r.consumed > 0 THEN r.consumed - 1 ELSE 0]
identify_esc_seq(data) == escWalk(data, 1)

(***************************************************************************)
(* termui::internal::ScopedBufferedTty, receive side                       *)
(***************************************************************************)
RxBufferSize == 8

Min(a, b) == IF a < b THEN a ELSE b

(***************************************************************************)
(* identify_esc_seq, the search in the table of keys                       *)
(***************************************************************************)

\* keyDefinitions: the table of the keys, in its order.
keyDefinitions == <<
    [event |-> Key.kArrowUp, escSeq |-> <<79, 65>>],  \* kArrowUp, "OA"
    [event |-> Key.kArrowDown, escSeq |-> <<79, 66>>],  \* kArrowDown, "OB"
    [event |-> Key.kArrowRight, escSeq |-> <<79, 67>>],  \* kArrowRight, "OC"
    [event |-> Key.kArrowLeft, escSeq |-> <<79, 68>>],  \* kArrowLeft, "OD"
    [event |-> Key.kInsert, escSeq |-> <<91, 50, 126>>],  \* kInsert, "[2~"
    [event |-> Key.kDelete, escSeq |-> <<91, 51, 126>>],  \* kDelete, "[3~"
    [event |-> Key.kEnd, escSeq |-> <<79, 70>>],  \* kEnd, "OF"
    [event |-> Key.kHome, escSeq |-> <<79, 72>>],  \* kHome, "OH"
    [event |-> Key.kPageUp, escSeq |-> <<91, 53, 126>>],  \* kPageUp, "[5~"
    [event |-> Key.kPageDown, escSeq |-> <<91, 54, 126>>],  \* kPageDown, "[6~"
    [event |-> Key.kKeypadCenter, escSeq |-> <<91, 69>>],  \* kKeypadCenter, "[E"
    [event |-> Key.kF1, escSeq |-> <<79, 80>>],  \* kF1, "OP"
    [event |-> Key.kF2, escSeq |-> <<79, 81>>],  \* kF2, "OQ"
    [event |-> Key.kF3, escSeq |-> <<79, 82>>],  \* kF3, "OR"
    [event |-> Key.kF4, escSeq |-> <<79, 83>>],  \* kF4, "OS"
    [event |-> Key.kF5, escSeq |-> <<91, 49, 53, 126>>],  \* kF5, "[15~"
    [event |-> Key.kF6, escSeq |-> <<91, 49, 55, 126>>],  \* kF6, "[17~"
    [event |-> Key.kF7, escSeq |-> <<91, 49, 56, 126>>],  \* kF7, "[18~"
    [event |-> Key.kF8, escSeq |-> <<91, 49, 57, 126>>],  \* kF8, "[19~"
    [event |-> Key.kF9, escSeq |-> <<91, 50, 48, 126>>],  \* kF9, "[20~"
    [event |-> Key.kF10, escSeq |-> <<91, 50, 49, 126>>],  \* kF10, "[21~"
    [event |-> Key.kF11, escSeq |-> <<91, 50, 51, 126>>],  \* kF11, "[23~"
    [event |-> Key.kF12, escSeq |-> <<91, 50, 52, 126>>],  \* kF12, "[24~"
    [event |-> shiftMask + Key.kArrowUp, escSeq |-> <<91, 49, 59, 50, 65>>],  \* kShiftArrowUp, "[1;2A"
    [event |-> shiftMask + Key.kArrowDown, escSeq |-> <<91, 49, 59, 50, 66>>],  \* kShiftArrowDown, "[1;2B"
    [event |-> shiftMask + Key.kArrowRight, escSeq |-> <<91, 49, 59, 50, 67>>],  \* kShiftArrowRight, "[1;2C"
    [event |-> shiftMask + Key.kArrowLeft, escSeq |-> <<91, 49, 59, 50, 68>>],  \* kShiftArrowLeft, "[1;2D"
    [event |-> shiftMask + Key.kDelete, escSeq |-> <<91, 51, 59, 50, 126>>],  \* kShiftDelete, "[3;2~"
    [event |-> shiftMask + Key.kEnd, escSeq |-> <<91, 49, 59, 50, 70>>],  \* kShiftEnd, "[1;2F"
    [event |-> shiftMask + Key.kHome, escSeq |-> <<91, 49, 59, 50, 72>>],  \* kShiftHome, "[1;2H"
    [event |-> Key.kShiftEnter, escSeq |-> <<79, 77>>],  \* kShiftEnter, "OM"
    [event |-> Key.kShiftTab, escSeq |-> <<91, 90>>],  \* kShiftTab, "[Z"
    [event |-> altMask + Key.kArrowUp, escSeq |-> <<91, 49, 59, 49, 65>>],  \* kAltArrowUp, "[1;1A"
    [event |-> altMask + Key.kArrowDown, escSeq |-> <<91, 49, 59, 49, 66>>],  \* kAltArrowDown, "[1;1B"
    [event |-> altMask + Key.kArrowRight, escSeq |-> <<91, 49, 59, 49, 67>>],  \* kAltArrowRight, "[1;1C"
    [event |-> altMask + Key.kArrowLeft, escSeq |-> <<91, 49, 59, 49, 68>>],  \* kAltArrowLeft, "[1;1D"
    [event |-> altMask + Key.kInsert, escSeq |-> <<91, 50, 59, 49, 126>>],  \* kAltInsert, "[2;1~"
    [event |-> altMask + Key.kDelete, escSeq |-> <<91, 51, 59, 49, 126>>],  \* kAltDelete, "[3;1~"
    [event |-> altMask + Key.kEnd, escSeq |-> <<91, 49, 59, 49, 70>>],  \* kAltEnd, "[1;1F"
    [event |-> altMask + Key.kHome, escSeq |-> <<91, 49, 59, 49, 72>>],  \* kAltHome, "[1;1H"
    [event |-> altMask + Key.kPageUp, escSeq |-> <<91, 53, 59, 49, 126>>],  \* kAltPageUp, "[5;1~"
    [event |-> altMask + Key.kPageDown, escSeq |-> <<91, 54, 59, 49, 126>>],  \* kAltPageDown, "[6;1~"
    [event |-> ctrlMask + Key.kArrowUp, escSeq |-> <<91, 49, 59, 53, 65>>],  \* kCtrlArrowUp, "[1;5A"
    [event |-> ctrlMask + Key.kArrowDown, escSeq |-> <<91, 49, 59, 53, 66>>],  \* kCtrlArrowDown, "[1;5B"
    [event |-> ctrlMask + Key.kArrowRight, escSeq |-> <<91, 49, 59, 53, 67>>],  \* kCtrlArrowRight, "[1;5C"
    [event |-> ctrlMask + Key.kArrowLeft, escSeq |-> <<91, 49, 59, 53, 68>>],  \* kCtrlArrowLeft, "[1;5D"
    [event |-> ctrlMask + Key.kInsert, escSeq |-> <<91, 50, 59, 53, 126>>],  \* kCtrlInsert, "[2;5~"
    [event |-> ctrlMask + Key.kDelete, escSeq |-> <<91, 51, 59, 53, 126>>],  \* kCtrlDelete, "[3;5~"
    [event |-> ctrlMask + Key.kEnd, escSeq |-> <<91, 49, 59, 53, 70>>],  \* kCtrlEnd, "[1;5F"
    [event |-> ctrlMask + Key.kHome, escSeq |-> <<91, 49, 59, 53, 72>>],  \* kCtrlHome, "[1;5H"
    [event |-> ctrlMask + Key.kPageUp, escSeq |-> <<91, 53, 59, 53, 126>>],  \* kCtrlPageUp, "[5;5~"
    [event |-> ctrlMask + Key.kPageDown, escSeq |-> <<91, 54, 59, 53, 126>>]   \* kCtrlPageDown, "[6;5~"
>>

\* identify_esc_seq built with TERMUI_INPUT_ESC_SEQ_USE_SEARCH: the first entry
\* of the table whose sequence is not longer than the data and equal to its
\* first bytes, or 0.
identify_esc_seq_search_noSize(data) ==
    LET found == {k \in DOMAIN keyDefinitions :
                     \A j \in 1..Min(Len(keyDefinitions[k].escSeq), Len(data)) :
                         keyDefinitions[k].escSeq[j] = data[j]}
    IN  IF found = {} THEN [event |-> 0, consumed |-> 0]
        ELSE LET keydef == keyDefinitions[CHOOSE k \in found : \A j \in found : k <= j]
             IN  [event |-> keydef.event, consumed |-> Len(keydef.escSeq)]
identify_esc_seq_search(data) ==
    LET found == {k \in DOMAIN keyDefinitions :
                     /\ Len(keyDefinitions[k].escSeq) <= Len(data)
                     /\ SubSeq(data, 1, Len(keyDefinitions[k].escSeq))
                            = keyDefinitions[k].escSeq}
    IN  IF found = {} THEN [event |-> 0, consumed |-> 0]
        ELSE LET keydef == keyDefinitions[CHOOSE k \in found : \A j \in found : k <= j]
             IN  [event |-> keydef.event, consumed |-> Len(keydef.escSeq)]

\* The byte values of a buffer of bytes tagged with their index in the stream.
Bytes(buf) == [k \in 1..Len(buf) |-> buf[k].b]
Indices(buf) == {buf[k].i : k \in 1..Len(buf)}

\* std::mbrtoc32 in a UTF-8 locale.  ps holds the bytes of an incomplete sequence
\* that earlier calls absorbed.  Result: rc (-1 invalid, -2 incomplete, 0 for the
\* null character, else the number of bytes of s that complete the character),
\* the character, and the state left.
Utf8Need(b0) ==
    IF b0 < 128 THEN 1
    ELSE IF b0 >= 194 /\ b0 <= 223 THEN 2
    ELSE IF b0 >= 224 /\ b0 <= 239 THEN 3
    ELSE IF b0 >= 240 /\ b0 <= 244 THEN 4
    ELSE 0

Utf8ContOk(b0, k, b) ==
    IF k = 2 /\ b0 = 224 THEN b >= 160 /\ b <= 191
    ELSE IF k = 2 /\ b0 = 237 THEN b >= 128 /\ b <= 159
    ELSE IF k = 2 /\ b0 = 240 THEN b >= 144 /\ b <= 191
    ELSE IF k = 2 /\ b0 = 244 THEN b >= 128 /\ b <= 143
    ELSE b >= 128 /\ b <= 191

Utf8Value(all, need) ==
    IF need = 1 THEN all[1]
    ELSE IF need = 2 THEN (all[1] - 192) * 64 + (all[2] - 128)
    ELSE IF need = 3 THEN (all[1] - 224) * 4096 + (all[2] - 128) * 64 + (all[3] - 128)
    ELSE (all[1] - 240) * 262144 + (all[2] - 128) * 4096 + (all[3] - 128) * 64
         + (all[4] - 128)

mbrtoc32(s, ps, errKeeps) ==
    LET all == ps \o s
        need == Utf8Need(all[1])
        seen == Min(Len(all), need)
        bad == need = 0 \/ \E k \in 2..seen : ~Utf8ContOk(all[1], k, all[k])
    IN  IF bad
        THEN [rc |-> 0 - 1, c32 |-> 0, ps |-> IF errKeeps THEN ps ELSE <<>>]
        ELSE IF Len(all) < need
        THEN [rc |-> 0 - 2, c32 |-> 0, ps |-> all]
        ELSE LET c == Utf8Value(all, need)
             IN  [rc |-> IF c = 0 THEN 0 ELSE need - Len(ps), c32 |-> c, ps |-> <<>>]

\* ScopedBufferedTty::rxConsume(n)
rxConsume_noShift(buf, n) ==
    IF n < Len(buf) THEN SubSeq(buf, 1, Len(buf) - n) ELSE <<>>
rxConsume(buf, n) ==
    IF n < Len(buf) THEN SubSeq(buf, n + 1, Len(buf)) ELSE <<>>

\* ScopedBufferedTty::rxFd: one read() of the tty queue into the free part of
\* m_rxBuffer (a failed read with EINTR or EAGAIN, like an empty queue, adds nothing).
rxFd(buf, queue) ==
    IF Len(buf) < RxBufferSize
    THEN buf \o SubSeq(queue, 1, Min(RxBufferSize - Len(buf), Len(queue)))
    ELSE buf

\* ScopedBufferedTty::rxC32: the character returned, the buffer and the state left.
rxC32(buf, ps, errKeeps) ==
    IF Len(buf) = 0
    THEN [result |-> 0, buf |-> buf, ps |-> ps]
    ELSE LET r == mbrtoc32(Bytes(buf), ps, errKeeps)
         IN  IF r.rc = 0 - 1 \/ r.rc = 0
             THEN [result |-> r.c32, buf |-> rxConsume(buf, 1), ps |-> r.ps]
             ELSE IF r.rc = 0 - 2
             THEN [result |-> r.c32, buf |-> buf, ps |-> r.ps]
             ELSE [result |-> r.c32, buf |-> rxConsume(buf, r.rc), ps |-> r.ps]

(***************************************************************************)
(* TermUi::readTtyHandler                                                  *)
(***************************************************************************)

\* readTtyHandler, the branch c == 27: the event reported and the buffer left,
\* from the buffer that follows the ESC.
escapeEvent_dropNext(c, buf) ==
    LET id == identify_esc_seq(Bytes(buf))
    IN  IF id.event > 0
        THEN [event |-> id.event, buf |-> rxConsume(buf, id.consumed)]
        ELSE [event |-> c, buf |-> rxConsume(buf, 1)]
escapeEvent(c, buf) ==
    LET id == identify_esc_seq(Bytes(buf))
    IN  IF id.event > 0
        THEN [event |-> id.event, buf |-> rxConsume(buf, id.consumed)]
        ELSE [event |-> c, buf |-> buf]

\* One iteration of the while (true) loop, from the buffer, the decoder state and
\* the tty queue: what it saw after rxFd, whether it broke out of the loop or
\* reported an event, the event, and the buffer and state it leaves.
LoopIteration(buf, ps, queue, errKeeps) ==
    LET filled == rxFd(buf, queue)
        r == rxC32(filled, ps, errKeeps)
        c == r.result
        base == [filled |-> filled, mbs |-> ps, ps |-> r.ps]
    IN  IF c <= 0
        THEN base @@ [kind |-> "break", event |-> 0, buf |-> r.buf]
        ELSE IF c <= 26
        THEN base @@ [kind |-> "event", event |-> fromCtrl(c - 1), buf |-> r.buf]
        ELSE IF c # 27
        THEN base @@ [kind |-> "event", event |-> c, buf |-> r.buf]
        ELSE base @@ [kind |-> "event"] @@ escapeEvent(c, r.buf)

\* The bytes waiting in the queue of the tty: arrived and not yet read.
TtyQueue ==
    [k \in 1..(arrived - nbRead) |-> [b |-> input[nbRead + k], i |-> nbRead + k]]

\* The terminal sends the next n bytes of the stream.
TtyArrive(n) ==
    /\ arrived + n <= Len(input)
    /\ arrived' = arrived + n
    /\ UNCHANGED <<input, nbRead, m_rxBuffer, m_rxMbState, mbErrKeepsState, ttyPc,
                   events, lastIter>>
    /\ UNCHANGED notInputVars

\* The poll reports the tty readable (EPOLLIN, level-triggered) and calls
\* readTtyHandler.
readTtyHandler ==
    /\ ttyPc = "idle"
    /\ arrived > nbRead
    /\ ttyPc' = "loop"
    /\ UNCHANGED <<input, arrived, nbRead, m_rxBuffer, m_rxMbState, mbErrKeepsState,
                   events, lastIter>>
    /\ UNCHANGED notInputVars

\* readTtyHandler runs one iteration of its loop: rxFd, rxC32, then either break
\* (the handler returns) or m_app.eventHandler(event).
readTtyIteration ==
    /\ ttyPc = "loop"
    /\ LET it == LoopIteration(m_rxBuffer, m_rxMbState, TtyQueue, mbErrKeepsState)
       IN  /\ nbRead' = nbRead + (Len(it.filled) - Len(m_rxBuffer))
           /\ m_rxBuffer' = it.buf
           /\ m_rxMbState' = it.ps
           /\ ttyPc' = IF it.kind = "break" THEN "idle" ELSE "loop"
           /\ events' = IF it.kind = "break" THEN events
                        ELSE Append(events, [code |-> it.event,
                                             src |-> Indices(it.filled) \ Indices(it.buf)])
           /\ lastIter' = [kind |-> it.kind, filled |-> Bytes(it.filled),
                           first |-> nbRead - Len(m_rxBuffer) + 1,
                           mbs |-> it.mbs, nbEvents |-> Len(events)]
    /\ UNCHANGED <<input, arrived, mbErrKeepsState>>
    /\ UNCHANGED notInputVars

NextInput ==
    \/ \E n \in 1..RxBufferSize : TtyArrive(n)
    \/ readTtyHandler
    \/ readTtyIteration

(***************************************************************************)
(* csys::Poll: the monitored descriptors                                   *)
(***************************************************************************)

\* ScopedFd::fd of a ScopedFd that holds no descriptor (operator bool is fd >= 0).
InvalidFd == 0 - 1

\* nbSimulatenousEvents, the size of events[] in waitAndProcessEvents.
MaxBatch == 2

\* The descriptors the application opens, and the handlers it gives to add.
PollFds == {3, 4, 5}
PollHandlers == {"hA", "hB"}

\* A std::map without entry.
EmptyMap == [k \in {} |-> "hA"]

\* std::map::try_emplace(key, ...): inserts unless the key is there.
try_emplace(map, key, value) ==
    IF key \in DOMAIN map THEN map
    ELSE [k \in DOMAIN map \cup {key} |-> IF k = key THEN value ELSE map[k]]

\* std::map::erase(key)
mapErase_none(map, key) == map
mapErase(map, key) == [k \in DOMAIN map \ {key} |-> map[k]]

\* How a call of Poll::add ends: the two exceptions thrown before anything is
\* changed, else the result of epoll_ctl(EPOLL_CTL_ADD).
addResult(map, fd, kernelOk) ==
    IF fd = InvalidFd THEN "invalid"
    ELSE IF fd \in DOMAIN map THEN "conflict"
    ELSE IF kernelOk THEN "ok"
    ELSE "errno"

PollAtRest ==
    /\ m_monitoredFds = EmptyMap
    /\ epollSet = {}
    /\ pollLast = [op |-> "none", fd |-> InvalidFd, handler |-> "hA", result |-> "ok",
                   before |-> EmptyMap]
    /\ pollPc = "idle"
    /\ pollEvents = <<>>
    /\ pollIndex = 1
    /\ pollCalls = <<>>

\* Poll::add(fd, events, handler).  epoll_ctl(EPOLL_CTL_ADD) fails with EEXIST
\* when the descriptor is in the interest list, and may fail otherwise (ENOMEM,
\* ENOSPC, EPERM for a descriptor that does not support epoll).
Poll_add(fd, handler, kernelOk) ==
    /\ kernelOk => fd \notin epollSet
    /\ LET result == addResult(m_monitoredFds, fd, kernelOk)
           emplaced == try_emplace(m_monitoredFds, fd, handler)
       IN  /\ m_monitoredFds' = IF result = "ok" THEN emplaced
                                ELSE IF result = "errno" THEN mapErase(emplaced, fd)
                                ELSE m_monitoredFds
           /\ epollSet' = IF result = "ok" THEN epollSet \cup {fd} ELSE epollSet
           /\ pollLast' = [op |-> "add", fd |-> fd, handler |-> handler,
                           result |-> result, before |-> m_monitoredFds]
    /\ UNCHANGED <<pollPc, pollEvents, pollIndex, pollCalls>>
    /\ UNCHANGED notPollVars

\* Poll::remove(fd): the entry is erased, then epoll_ctl(EPOLL_CTL_DEL), which
\* fails with ENOENT when the descriptor is not in the interest list.
Poll_remove(fd) ==
    /\ LET result == IF fd = InvalidFd THEN "invalid"
                     ELSE IF fd \in epollSet THEN "ok"
                     ELSE "errno"
       IN  /\ m_monitoredFds' = IF result = "invalid" THEN m_monitoredFds
                                ELSE mapErase(m_monitoredFds, fd)
           /\ epollSet' = epollSet \ {fd}
           /\ pollLast' = [op |-> "remove", fd |-> fd, handler |-> "hA",
                           result |-> result, before |-> m_monitoredFds]
    /\ UNCHANGED <<pollPc, pollEvents, pollIndex, pollCalls>>
    /\ UNCHANGED notPollVars

\* ScopedFd::~ScopedFd closes the descriptor: the kernel drops a closed
\* descriptor from the interest list, the map of Poll keeps its entry.
ScopedFd_close(fd) ==
    /\ fd \in epollSet
    /\ epollSet' = epollSet \ {fd}
    /\ UNCHANGED <<m_monitoredFds, pollLast, pollPc, pollEvents, pollIndex,
                   pollCalls>>
    /\ UNCHANGED notPollVars

\* Poll::waitAndProcessEvents up to its loop: epoll_wait reports in events[]
\* some descriptors of the interest list, each once, at most
\* nbSimulatenousEvents of them (none on a timeout and on EINTR).
waitAndProcessEvents(ready) ==
    /\ pollPc = "idle"
    /\ Len(ready) <= MaxBatch
    /\ \A i \in DOMAIN ready : ready[i] \in epollSet
    /\ \A i, j \in DOMAIN ready : i # j => ready[i] # ready[j]
    /\ pollEvents' = ready
    /\ pollIndex' = 1
    /\ pollCalls' = <<>>
    /\ pollPc' = IF ready = <<>> THEN "idle" ELSE "loop"
    /\ UNCHANGED <<m_monitoredFds, epollSet, pollLast>>
    /\ UNCHANGED notPollVars

\* std::map::at(key): whether it throws std::out_of_range
mapAt_throws(map, key) == key \notin DOMAIN map

\* One iteration of the loop up to the call of the handler:
\* m_monitoredFds.at(events[i].data.fd) throws when the map has no such entry,
\* and the exception leaves waitAndProcessEvents; else the handler is called.
processEvent ==
    /\ pollPc = "loop"
    /\ IF mapAt_throws(m_monitoredFds, pollEvents[pollIndex])
       THEN /\ pollPc' = "out_of_range"
            /\ UNCHANGED pollCalls
       ELSE /\ pollPc' = "handler"
            /\ pollCalls' = Append(pollCalls, pollEvents[pollIndex])
    /\ UNCHANGED <<m_monitoredFds, epollSet, pollLast, pollEvents, pollIndex>>
    /\ UNCHANGED notPollVars

\* The handler called for events[i] calls poll.remove(fd) for a monitored
\* descriptor, its own or another one.
handlerRemoves(fd) ==
    /\ pollPc = "handler"
    /\ fd \in DOMAIN m_monitoredFds
    /\ fd \in epollSet
    /\ Poll_remove(fd)

\* The handler returns and the loop goes on. A handler that removed its own
\* descriptor ran on while its std::function, held by the erased entry, was
\* destroyed: the behaviour is undefined, the handler may return as if nothing
\* had happened or the program may crash.
handlerReturns(crash) ==
    /\ pollPc = "handler"
    /\ crash => pollEvents[pollIndex] \notin DOMAIN m_monitoredFds
    /\ pollPc' = IF crash THEN "crashed"
                 ELSE IF pollIndex < Len(pollEvents) THEN "loop"
                 ELSE "idle"
    /\ pollIndex' = IF crash THEN pollIndex ELSE pollIndex + 1
    /\ UNCHANGED <<m_monitoredFds, epollSet, pollLast, pollEvents, pollCalls>>
    /\ UNCHANGED notPollVars

\* The application adds its descriptors, then the loop of the program calls
\* waitAndProcessEvents again and again.
Batches == UNION {[1..n -> PollFds] : n \in 0..MaxBatch}
NextDispatch ==
    \/ \E fd \in PollFds, h \in PollHandlers : pollPc = "idle" /\ Poll_add(fd, h, TRUE)
    \/ \E ready \in Batches : waitAndProcessEvents(ready)
    \/ processEvent
    \/ \E fd \in PollFds : handlerRemoves(fd)
    \/ \E crash \in BOOLEAN : handlerReturns(crash)

NextPoll ==
    \/ \E fd \in PollFds \cup {InvalidFd}, h \in PollHandlers, ok \in BOOLEAN :
           Poll_add(fd, h, ok)
    \/ \E fd \in PollFds \cup {InvalidFd} : Poll_remove(fd)
    \/ \E fd \in PollFds : ScopedFd_close(fd)

(***************************************************************************)
(* termui::TermUi: the framebuffer and its painters                        *)
(***************************************************************************)
MaxPaints == 2
MaxStrLen == 3
MaxFmtLen == 3
MaxMdLen == 4
MaxPartial == 2
MaxPublish == 1
MaxChunk == 5

DefaultFg == 7
DefaultBg == 0
rgbMask == 16777216
kBold == 2
kItalic == 8
kUnderline == 16
kCrossedOut == 512
kLeft == 0
kRight == 1
kCentered == 2
kModeMask == 3
kClipStart == 4
U32effectMask == 1073741824
U32colorFgMask == 536870912
U32colorBgMask == 268435456
U32valueMask == 2097151
Space == 32
Ellipsis == 8230

Max(a, b) == IF a > b THEN a ELSE b

\* Integer division of C++ (the quotient is truncated towards zero), b > 0.
CDiv(a, b) == IF a >= 0 THEN a \div b ELSE 0 - ((0 - a) \div b)

\* size > (size_t)n and size == (size_t)n, for the size of a string and an int n:
\* the conversion of a negative n gives a value above every size.
GtSizeT(size, n) == n >= 0 /\ size > n
EqSizeT(size, n) == n >= 0 /\ size = n

\* struct Cell
Cell(glyph, effect, colorFg, colorBg) ==
    [glyph |-> glyph, effect |-> effect, colorFg |-> colorFg, colorBg |-> colorBg]

\* Cell::reset
Cell_reset(colorFg, colorBg) == Cell(Space, 0, colorFg, colorBg)

\* The bounds test of the painters.
InGrid(tty, y, x) == x >= 0 /\ x < tty.width /\ y >= 0 /\ y < tty.height

\* toU32String: the codepoints of a UTF-8 string, or the exception it throws (on
\* an invalid or incomplete sequence, and on the null character).
RECURSIVE toU32(_, _)
toU32(remaining, result) ==
    IF remaining = <<>> THEN [threw |-> FALSE, str |-> result]
    ELSE LET r == mbrtoc32(remaining, <<>>, FALSE)
         IN  IF r.rc = 0 \/ r.rc < 0 \/ r.rc > 6
             THEN [threw |-> TRUE, str |-> <<>>]
             ELSE toU32(SubSeq(remaining, r.rc + 1, Len(remaining)),
                        Append(result, r.c32))

toU32String(str) == toU32(str, <<>>)

\* std::u32string::resize(n, c) for 0 <= n
resize_cutOnly(str, n, c) == SubSeq(str, 1, Min(n, Len(str)))
resize(str, n, c) ==
    IF n <= Len(str) THEN SubSeq(str, 1, n)
    ELSE str \o [k \in 1..(n - Len(str)) |-> c]

\* clipString(strU32, wantedSize, clipStart), called with strU32.size() > wantedSize
clipString_noEllipsis(strU32, wantedSize, clipStart) ==
    IF wantedSize = 0 THEN <<>>
    ELSE IF clipStart
    THEN SubSeq(strU32, Len(strU32) - wantedSize + 1, Len(strU32))
    ELSE SubSeq(strU32, 1, wantedSize)
clipString(strU32, wantedSize, clipStart) ==
    IF wantedSize = 0 THEN <<>>
    ELSE IF clipStart
    THEN <<Ellipsis>> \o SubSeq(strU32, Len(strU32) - wantedSize + 2, Len(strU32))
    ELSE SubSeq(strU32, 1, wantedSize - 1) \o <<Ellipsis>>

\* TextAlignment::isClipStart, TextAlignment::getMode
isClipStart_never(alignment) == FALSE
isClipStart(alignment) == (alignment \div kClipStart) % 2 = 1
getMode(alignment) == alignment % (kModeMask + 1)

\* TermUi::addGlyph: the framebuffer after the call.
addGlyph_noColTest(fb, tty, y, x, glyph, colorFg, colorBg, effect) ==
    IF x >= 0 /\ y >= 0 /\ y < tty.height /\ y * tty.width + x < Len(fb)
    THEN [fb EXCEPT ![y * tty.width + x + 1] = Cell(glyph, effect, colorFg, colorBg)]
    ELSE fb
addGlyph_wrongStride(fb, tty, y, x, glyph, colorFg, colorBg, effect) ==
    IF InGrid(tty, y, x)
    THEN [fb EXCEPT ![y * tty.height + x + 1] = Cell(glyph, effect, colorFg, colorBg)]
    ELSE fb
addGlyph(fb, tty, y, x, glyph, colorFg, colorBg, effect) ==
    IF InGrid(tty, y, x)
    THEN [fb EXCEPT ![y * tty.width + x + 1] = Cell(glyph, effect, colorFg, colorBg)]
    ELSE fb

\* TermUi::addStdU32String: addGlyph for each glyph, x incremented.
RECURSIVE addStdU32String(_, _, _, _, _, _, _, _)
addStdU32String(fb, tty, y, x, strU32, colorFg, colorBg, effect) ==
    IF strU32 = <<>> THEN fb
    ELSE addStdU32String(addGlyph(fb, tty, y, x, Head(strU32), colorFg, colorBg, effect),
                         tty, y, x + 1, Tail(strU32), colorFg, colorBg, effect)

\* TermUi::addStringN, the alignment: the string handed to addStdU32String, or the
\* std::length_error of resize / insert when (size_t)width is out of range.
alignStringN(strU32, width, alignment) ==
    LET len == Len(strU32)
    IN  IF EqSizeT(len, width) THEN [threw |-> FALSE, str |-> strU32]
        ELSE IF GtSizeT(len, width)
        THEN [threw |-> FALSE, str |-> clipString(strU32, width, isClipStart(alignment))]
        ELSE IF getMode(alignment) = kModeMask
        THEN [threw |-> FALSE, str |-> strU32]
        ELSE IF width < 0
        THEN [threw |-> TRUE, str |-> <<>>]
        ELSE IF getMode(alignment) = kLeft
        THEN [threw |-> FALSE, str |-> resize(strU32, width, Space)]
        ELSE IF getMode(alignment) = kRight
        THEN [threw |-> FALSE, str |-> [k \in 1..(width - len) |-> Space] \o strU32]
        ELSE [threw |-> FALSE,
              str |-> resize([k \in 1..((width - len) \div 2) |-> Space] \o strU32,
                             width, Space)]

\* TermUi::addStringsN, the layout of the three fields in width: where the left
\* field ends, where the middle and the right fields start.
layoutStringsN(lenLeft, lenMiddle, lenRight, width) ==
    LET endLeft0 == lenLeft
        startMiddle0 == IF lenMiddle = 0 THEN width
                        ELSE CDiv(width, 2) - (lenMiddle + 1) \div 2
        overlap1 == endLeft0 >= startMiddle0 - 1
        endLeft1 == IF overlap1 THEN Min(endLeft0, CDiv(width, 3) - 1) ELSE endLeft0
        startMiddle == IF overlap1 THEN Max(startMiddle0, CDiv(width, 3) + 1)
                       ELSE startMiddle0
        endMiddle0 == IF lenMiddle = 0 THEN 0 ELSE startMiddle + lenMiddle
        startRight0 == width - lenRight
        overlap2 == endMiddle0 >= startRight0 - 1
        endMiddle == IF overlap2 THEN Min(endMiddle0, CDiv(2 * width, 3) - 1)
                     ELSE endMiddle0
        startRight1 == IF overlap2 THEN Max(startRight0, CDiv(2 * width, 3) + 1)
                       ELSE startRight0
        overlap3 == endLeft1 >= startRight1 - 1
        endLeft == IF overlap3 THEN Min(endLeft1, CDiv(width, 2) - 1) ELSE endLeft1
        startRight == IF overlap3 THEN Max(startRight1, CDiv(width, 2) + 1)
                      ELSE startRight1
    IN  [endLeft |-> endLeft, startMiddle |-> startMiddle, endMiddle |-> endMiddle,
         startRight |-> startRight, adjusted |-> overlap1 \/ overlap2 \/ overlap3]

\* TermUi::addStringsN, "clip strings if needed" for one field
clipField(strU32, wanted) ==
    IF GtSizeT(Len(strU32), wanted) THEN clipString(strU32, wanted, FALSE) ELSE strU32

\* TermUi::addStringsN, the row handed to addStdU32String (or the
\* std::length_error of resize when a start is negative), with the fields as
\* clipped and the layout.
buildStringsN(left, middle, right, width) ==
    LET lay == layoutStringsN(Len(left), Len(middle), Len(right), width)
        cLeft == clipField(left, lay.endLeft)
        cMiddle == clipField(middle, lay.endMiddle - lay.startMiddle)
        cRight == clipField(right, width - lay.startRight)
        threw == (cMiddle # <<>> /\ lay.startMiddle < 0) \/ lay.startRight < 0
        withMiddle == IF cMiddle # <<>>
                      THEN resize(cLeft, lay.startMiddle, Space) \o cMiddle
                      ELSE cLeft
    IN  [threw |-> threw,
         str |-> IF threw THEN <<>> ELSE resize(withMiddle, lay.startRight, Space) \o cRight,
         left |-> cLeft, middle |-> cMiddle, right |-> cRight, layout |-> lay]

\* U32Format: the sentinels of a formatted string
isU32Format(v) == v > U32valueMask
isEffect(v) == (v \div U32effectMask) % 2 = 1
isColorFg(v) == (v \div U32colorFgMask) % 2 = 1
isColorBg(v) == (v \div U32colorBgMask) % 2 = 1
getColor(v) == v % (U32valueMask + 1)
getEffect(v) == v % (U32valueMask + 1)
buildEffect(effect) == effect + U32effectMask
buildColorFg(color) == color + U32colorFgMask
buildColorBg(color) == color + U32colorBgMask

\* *cellPtr = cell, for cellPtr = &m_frameBuffer[0] + ptr.  A store behind the
\* last cell goes outside the vector: the framebuffer keeps its cells, the
\* painter records the index it wrote at.
storeCell(fb, ptr, cell) ==
    IF ptr < Len(fb) THEN [fb EXCEPT ![ptr + 1] = cell] ELSE fb

\* TermUi::addFString, "add spaces until width"
RECURSIVE addFStringPad(_, _, _, _, _, _, _)
addFStringPad(fb, ptr, width, colorFg, colorBg, effect, written) ==
    IF width > 0
    THEN addFStringPad(storeCell(fb, ptr, Cell(Space, effect, colorFg, colorBg)),
                       ptr + 1, width - 1, colorFg, colorBg, effect, written \cup {ptr})
    ELSE [fb |-> fb, written |-> written]

\* TermUi::addFString, the loop over the formatted string
RECURSIVE addFStringLoop(_, _, _, _, _, _, _, _)
addFStringLoop(fb, ptr, str, width, colorFg, colorBg, effect, written) ==
    IF str = <<>> \/ width = 0
    THEN addFStringPad(fb, ptr, width, colorFg, colorBg, effect, written)
    ELSE LET c == Head(str)
         IN  IF isU32Format(c)
             THEN addFStringLoop(fb, ptr, Tail(str), width,
                                 IF ~isEffect(c) /\ isColorFg(c) THEN getColor(c)
                                 ELSE colorFg,
                                 IF ~isEffect(c) /\ ~isColorFg(c) /\ isColorBg(c)
                                 THEN getColor(c) ELSE colorBg,
                                 IF isEffect(c) THEN getEffect(c) ELSE effect,
                                 written)
             ELSE addFStringLoop(storeCell(fb, ptr, Cell(c, effect, colorFg, colorBg)),
                                 ptr + 1, Tail(str), width - 1, colorFg, colorBg, effect,
                                 written \cup {ptr})

\* TermUi::addFString: the framebuffer after the call and the indices of the
\* cells it stored to.
addFString_ctorColors(fb, tty, colorFg, colorBg, y, x, formattedStr, width) ==
    IF InGrid(tty, y, x)
    THEN addFStringLoop(fb, y * tty.width + x, formattedStr, Min(width, tty.width - x),
                        DefaultFg, DefaultBg, 0, {})
    ELSE [fb |-> fb, written |-> {}]
addFString(fb, tty, colorFg, colorBg, y, x, formattedStr, width) ==
    IF InGrid(tty, y, x)
    THEN addFStringLoop(fb, y * tty.width + x, formattedStr, Min(width, tty.width - x),
                        colorFg, colorBg, 0, {})
    ELSE [fb |-> fb, written |-> {}]

\* U32Format::convertMarkdown
markdownMask(c) ==
    IF c = 42 THEN kBold
    ELSE IF c = 47 THEN kItalic
    ELSE IF c = 95 THEN kUnderline
    ELSE kCrossedOut

\* effect ^ mask, for a mask of one bit
xorBit_or(effect, mask) ==
    IF (effect \div mask) % 2 = 1 THEN effect ELSE effect + mask
xorBit(effect, mask) ==
    IF (effect \div mask) % 2 = 1 THEN effect - mask ELSE effect + mask

RECURSIVE convertMarkdownLoop_readOne(_, _, _)
convertMarkdownLoop_readOne(str, out, currentEffect) ==
    IF str = <<>> THEN out
    ELSE LET c == Head(str)
         IN  IF c \in {42, 47, 95, 45} /\ Len(str) >= 2 /\ str[2] = c
             THEN LET e == xorBit(currentEffect, markdownMask(c))
                  IN  convertMarkdownLoop_readOne(SubSeq(str, 2, Len(str)),
                                                  Append(out, buildEffect(e)), e)
             ELSE convertMarkdownLoop_readOne(Tail(str), Append(out, c), currentEffect)
RECURSIVE convertMarkdownLoop(_, _, _)
convertMarkdownLoop(str, out, currentEffect) ==
    IF str = <<>> THEN out
    ELSE LET c == Head(str)
         IN  IF c \in {42, 47, 95, 45} /\ Len(str) >= 2 /\ str[2] = c
             THEN LET e == xorBit(currentEffect, markdownMask(c))
                  IN  convertMarkdownLoop(SubSeq(str, 3, Len(str)),
                                          Append(out, buildEffect(e)), e)
             ELSE convertMarkdownLoop(Tail(str), Append(out, c), currentEffect)

convertMarkdown(str) == convertMarkdownLoop(str, <<>>, 0)

\* str.find("\n", 0) on the rest of the text, or its size
lineEndOf(str) ==
    IF \E k \in 1..Len(str) : str[k] = 10
    THEN CHOOSE k \in 1..Len(str) : str[k] = 10 /\ \A j \in 1..(k - 1) : str[j] # 10
    ELSE Len(str) + 1

\* TermUi::addMarkdown, the do-while loop from lineBegin on: rest is the text
\* from lineBegin.
\* It gives the framebuffer, the indices stored to, the formatted strings handed
\* to addFString and whether toU32String threw.
RECURSIVE addMarkdownLoop(_, _, _, _, _, _, _, _, _, _)
addMarkdownLoop(fb, written, lines, tty, colorFg, colorBg, y, x, rest, width) ==
    LET lineEnd == lineEndOf(rest)
        u32Str == toU32String(SubSeq(rest, 1, lineEnd - 1))
        formatted == convertMarkdown(u32Str.str)
        r == addFString(fb, tty, colorFg, colorBg, y, x, formatted, width)
        after == SubSeq(rest, lineEnd + 1, Len(rest))
    IN  IF u32Str.threw
        THEN [fb |-> fb, written |-> written, lines |-> lines, threw |-> TRUE]
        ELSE IF after = <<>>
        THEN [fb |-> r.fb, written |-> written \cup r.written,
              lines |-> Append(lines, formatted), threw |-> FALSE]
        ELSE addMarkdownLoop(r.fb, written \cup r.written, Append(lines, formatted),
                             tty, colorFg, colorBg, y + 1, x, after, width)

\* TermUi::addMarkdown, its first line only.
addMarkdown_firstLine(fb, tty, colorFg, colorBg, y, x, str, width) ==
    LET u32Str == toU32String(SubSeq(str, 1, lineEndOf(str) - 1))
        formatted == convertMarkdown(u32Str.str)
        r == addFString(fb, tty, colorFg, colorBg, y, x, formatted, width)
    IN  IF u32Str.threw
        THEN [fb |-> fb, written |-> {}, lines |-> <<>>, threw |-> TRUE]
        ELSE [fb |-> r.fb, written |-> r.written, lines |-> <<formatted>>,
              threw |-> FALSE]
addMarkdown(fb, tty, colorFg, colorBg, y, x, str, width) ==
    addMarkdownLoop(fb, {}, <<>>, tty, colorFg, colorBg, y, x, str, width)

\* TermUi::setColors: the framebuffer after the call.
setColors(fb, tty, y, x, width, colorFg, colorBg) ==
    IF InGrid(tty, y, x)
    THEN [k \in DOMAIN fb |->
            IF k - 1 >= y * tty.width + x
               /\ k - 1 < y * tty.width + x + Min(width, tty.width - x)
            THEN [fb[k] EXCEPT !.colorFg = colorFg, !.colorBg = colorBg]
            ELSE fb[k]]
    ELSE fb

\* TermUi::reset: the framebuffer resized to width * height, every cell reset.
resetCells_keepOld(fb, size, colorFg, colorBg) ==
    [k \in 1..(size.width * size.height) |->
        IF k <= Len(fb) THEN fb[k] ELSE Cell_reset(colorFg, colorBg)]
resetCells_noResize(fb, size, colorFg, colorBg) ==
    [k \in 1..Len(fb) |-> Cell_reset(colorFg, colorBg)]
resetCells(fb, size, colorFg, colorBg) ==
    [k \in 1..(size.width * size.height) |-> Cell_reset(colorFg, colorBg)]

\* The sizes the terminal window takes.
Sizes == {[width |-> 3, height |-> 2], [width |-> 2, height |-> 1]}

\* The style of a cell after reset with the colours of the constructor, and
\* another style.
DefaultStyle == [colorFg |-> DefaultFg, colorBg |-> DefaultBg, effect |-> 0]
BoldStyle == [colorFg |-> 1, colorBg |-> 4, effect |-> kBold]

\* UTF-8 of a codepoint below 0x10000, and of a string of codepoints.
Utf8Encode(c) ==
    IF c < 128 THEN <<c>>
    ELSE IF c < 2048 THEN <<192 + (c \div 64), 128 + (c % 64)>>
    ELSE <<224 + (c \div 4096), 128 + ((c \div 64) % 64), 128 + (c % 64)>>

RECURSIVE Utf8OfSeq(_)
Utf8OfSeq(cps) ==
    IF cps = <<>> THEN <<>> ELSE Utf8Encode(Head(cps)) \o Utf8OfSeq(Tail(cps))

\* The texts of the application: the n first characters of "aécdef", of
\* "mnopqr" and of "wx€yz!", in UTF-8.
LeftChars == <<97, 233, 99, 100, 101, 102>>
MiddleChars == <<109, 110, 111, 112, 113, 114>>
RightChars == <<119, 120, 8364, 121, 122, 33>>
LeftText(n) == Utf8OfSeq(SubSeq(LeftChars, 1, n))
MiddleText(n) == Utf8OfSeq(SubSeq(MiddleChars, 1, n))
RightText(n) == Utf8OfSeq(SubSeq(RightChars, 1, n))

\* A string that is not UTF-8.
BadText == <<97, 255>>

\* A call of a painter by the application: the painter and its arguments (in
\* holds the string arguments).
NoCall ==
    [op |-> "none", y |-> 0, x |-> 0, glyph |-> 0, style |-> DefaultStyle,
     in |-> <<>>, width |-> 0, alignment |-> 0]
GlyphCall(y, x, glyph, style) ==
    [NoCall EXCEPT !.op = "addGlyph", !.y = y, !.x = x, !.glyph = glyph, !.style = style]
StringCall(y, x, str, style) ==
    [NoCall EXCEPT !.op = "addString", !.y = y, !.x = x, !.in = <<str>>, !.style = style]
StringNCall(y, x, str, width, alignment, style) ==
    [NoCall EXCEPT !.op = "addStringN", !.y = y, !.x = x, !.in = <<str>>,
                   !.width = width, !.alignment = alignment, !.style = style]
StringsNCall(y, x, left, middle, right, width, style) ==
    [NoCall EXCEPT !.op = "addStringsN", !.y = y, !.x = x,
                   !.in = <<left, middle, right>>, !.width = width, !.style = style]
FStringCall(y, x, formattedStr, width) ==
    [NoCall EXCEPT !.op = "addFString", !.y = y, !.x = x, !.in = <<formattedStr>>,
                   !.width = width]
MarkdownCall(y, x, str, width) ==
    [NoCall EXCEPT !.op = "addMarkdown", !.y = y, !.x = x, !.in = <<str>>,
                   !.width = width]
ColorsCall(y, x, width, style) ==
    [NoCall EXCEPT !.op = "setColors", !.y = y, !.x = x, !.width = width,
                   !.style = style]

(***************************************************************************)
(* termui::internal::ScopedBufferedTty, the output side, and               *)
(* TermUi::publish                                                         *)
(***************************************************************************)
ESC == 27
InvalidColor == 0 - 1
kFirstBit == 1
kLastBit == 9

\* namespace commands
smcup == <<27, 91, 63, 49, 48, 52, 57, 104, 27, 91, 50, 50, 59, 48, 59, 48, 116>>
rmcup == <<27, 91, 63, 49, 48, 52, 57, 108, 27, 91, 50, 51, 59, 48, 59, 48, 116>>
clear == <<27, 91, 72, 27, 91, 50, 74>>
smkx == <<27, 91, 63, 49, 104, 27, 61>>
rmkx == <<27, 91, 63, 49, 108, 27, 62>>
civis == <<27, 91, 63, 50, 53, 108>>
cnorm == <<27, 91, 63, 49, 50, 108, 27, 91, 63, 50, 53, 104>>

\* std::to_string of an unsigned number, as txAppendNumber appends it
RECURSIVE to_string(_)
to_string(num) ==
    IF num < 10 THEN <<48 + num>> ELSE to_string(num \div 10) \o <<48 + (num % 10)>>
txAppendNumber(num) == to_string(num)

\* txAppend(char32_t glyph): the byte of an ASCII glyph, else what c32rtomb gives
\* in a UTF-8 locale.
txAppend(glyph) ==
    IF glyph < 128 THEN <<glyph>> ELSE Utf8Encode(glyph)

\* The accessors of Color; InvalidColor is the value with its 32 bits set.
Color_isPalette(color) == color # InvalidColor /\ (color \div rgbMask) % 2 = 0
Color_paletteIndex(color) == IF color = InvalidColor THEN 255 ELSE color % 256
Color_red(color) == IF color = InvalidColor THEN 255 ELSE (color \div 65536) % 256
Color_green(color) == IF color = InvalidColor THEN 255 ELSE (color \div 256) % 256
Color_blue(color) == IF color = InvalidColor THEN 255 ELSE color % 256

\* TermUi::updateColorSetting: the bytes appended.
updateColorSetting(color, isFg) ==
    IF Color_isPalette(color)
    THEN IF Color_paletteIndex(color) < 8
         THEN txAppendNumber((IF isFg THEN 30 ELSE 40) + Color_paletteIndex(color))
         ELSE (IF isFg THEN <<51, 56, 59, 53, 59>> ELSE <<52, 56, 59, 53, 59>>)
              \o txAppendNumber(Color_paletteIndex(color))
    ELSE (IF isFg THEN <<51, 56, 59, 50, 59>> ELSE <<52, 56, 59, 50, 59>>)
         \o txAppendNumber(Color_red(color)) \o <<59>>
         \o txAppendNumber(Color_green(color)) \o <<59>>
         \o txAppendNumber(Color_blue(color))

\* The loop of updateGraphicSettings over the bits of the wanted effect.
RECURSIVE effectBits_fromSecond(_, _)
effectBits_fromSecond(wantedEffect, bit) ==
    IF bit > kLastBit THEN <<>>
    ELSE (IF bit > kFirstBit /\ (wantedEffect \div (2 ^ bit)) % 2 = 1
          THEN <<59>> \o txAppendNumber(bit) ELSE <<>>)
         \o effectBits_fromSecond(wantedEffect, bit + 1)
RECURSIVE effectBits(_, _)
effectBits(wantedEffect, bit) ==
    IF bit > kLastBit THEN <<>>
    ELSE (IF (wantedEffect \div (2 ^ bit)) % 2 = 1
          THEN <<59>> \o txAppendNumber(bit) ELSE <<>>)
         \o effectBits(wantedEffect, bit + 1)

\* TermUi::updateGraphicSettings: the bytes appended and the current settings
\* it leaves.
updateGraphicSettings_noForce(currentEffect, currentFg, currentBg, wantedEffect, wantedFg, wantedBg) ==
    IF wantedEffect # currentEffect \/ wantedFg # currentFg \/ wantedBg # currentBg
    THEN LET newEffect == wantedEffect # currentEffect
             forceColorSet == FALSE
             setFg == forceColorSet \/ wantedFg # currentFg
             setBg == forceColorSet \/ wantedBg # currentBg
             effectPart == IF newEffect
                           THEN <<48>> \o effectBits(wantedEffect, kFirstBit)
                           ELSE <<>>
             fgPart == IF setFg
                       THEN (IF newEffect THEN <<59>> ELSE <<>>)
                            \o updateColorSetting(wantedFg, TRUE)
                       ELSE <<>>
             bgPart == IF setBg
                       THEN (IF newEffect \/ setFg THEN <<59>> ELSE <<>>)
                            \o updateColorSetting(wantedBg, FALSE)
                       ELSE <<>>
         IN  [bytes |-> <<ESC, 91>> \o effectPart \o fgPart \o bgPart \o <<109>>,
              effect |-> IF newEffect THEN wantedEffect ELSE currentEffect,
              fg |-> IF setFg THEN wantedFg ELSE currentFg,
              bg |-> IF setBg THEN wantedBg ELSE currentBg]
    ELSE [bytes |-> <<>>, effect |-> currentEffect, fg |-> currentFg,
          bg |-> currentBg]
updateGraphicSettings(currentEffect, currentFg, currentBg, wantedEffect, wantedFg, wantedBg) ==
    IF wantedEffect # currentEffect \/ wantedFg # currentFg \/ wantedBg # currentBg
    THEN LET newEffect == wantedEffect # currentEffect
             forceColorSet == newEffect
             setFg == forceColorSet \/ wantedFg # currentFg
             setBg == forceColorSet \/ wantedBg # currentBg
             effectPart == IF newEffect
                           THEN <<48>> \o effectBits(wantedEffect, kFirstBit)
                           ELSE <<>>
             fgPart == IF setFg
                       THEN (IF newEffect THEN <<59>> ELSE <<>>)
                            \o updateColorSetting(wantedFg, TRUE)
                       ELSE <<>>
             bgPart == IF setBg
                       THEN (IF newEffect \/ setFg THEN <<59>> ELSE <<>>)
                            \o updateColorSetting(wantedBg, FALSE)
                       ELSE <<>>
         IN  [bytes |-> <<ESC, 91>> \o effectPart \o fgPart \o bgPart \o <<109>>,
              effect |-> IF newEffect THEN wantedEffect ELSE currentEffect,
              fg |-> IF setFg THEN wantedFg ELSE currentFg,
              bg |-> IF setBg THEN wantedBg ELSE currentBg]
    ELSE [bytes |-> <<>>, effect |-> currentEffect, fg |-> currentFg,
          bg |-> currentBg]

\* The loop of TermUi::publish over the cells, from cell k on with the cursor
\* counters x and y: the bytes appended.
RECURSIVE publishLoop_sameRow(_, _, _, _, _, _, _, _)
publishLoop_sameRow(fb, k, tty, x, y, currentEffect, currentFg, currentBg) ==
    IF k > Len(fb) THEN <<>>
    ELSE LET g == updateGraphicSettings(currentEffect, currentFg, currentBg,
                                        fb[k].effect, fb[k].colorFg, fb[k].colorBg)
             lineChange == x + 1 >= tty.width
         IN  g.bytes \o txAppend(fb[k].glyph)
             \o (IF lineChange
                 THEN <<ESC, 91>> \o to_string(y + 1) \o <<72>>
                 ELSE <<>>)
             \o publishLoop_sameRow(fb, k + 1, tty,
                            IF lineChange THEN 0 ELSE x + 1,
                            IF lineChange THEN y + 1 ELSE y,
                            g.effect, g.fg, g.bg)
RECURSIVE publishLoop(_, _, _, _, _, _, _, _)
publishLoop(fb, k, tty, x, y, currentEffect, currentFg, currentBg) ==
    IF k > Len(fb) THEN <<>>
    ELSE LET g == updateGraphicSettings(currentEffect, currentFg, currentBg,
                                        fb[k].effect, fb[k].colorFg, fb[k].colorBg)
             lineChange == x + 1 >= tty.width
         IN  g.bytes \o txAppend(fb[k].glyph)
             \o (IF lineChange
                 THEN <<ESC, 91>> \o to_string((y + 1) + 1) \o <<72>>
                 ELSE <<>>)
             \o publishLoop(fb, k + 1, tty,
                            IF lineChange THEN 0 ELSE x + 1,
                            IF lineChange THEN y + 1 ELSE y,
                            g.effect, g.fg, g.bg)

\* TermUi::publish up to its txFlush: the write buffer it leaves.
publish(buf, fb, tty) ==
    buf \o clear \o publishLoop(fb, 1, tty, 0, 0, 0, InvalidColor, InvalidColor)
        \o <<ESC, 91, 48, 109>>

\* What the constructor and the destructor of TermUi append.
ctorAppend(buf) == buf \o smcup \o smkx \o civis \o clear
dtorAppend_cursorLast(buf) == buf \o clear \o rmkx \o rmcup \o cnorm
dtorAppend(buf) == buf \o clear \o cnorm \o rmkx \o rmcup

\* The bytes one write of txFlush hands to the tty when it returns n.
txWrite_fromStart(buf, sent, n) == SubSeq(buf, 1, n)
txWrite(buf, sent, n) == SubSeq(buf, sent + 1, sent + n)

\* The live object between two calls, and no object.
TtyLive ==
    /\ objPc = "live"
    /\ termios = "raw"
    /\ m_txBuffer = <<>>
    /\ txSent = 0
    /\ txFlushed = <<>>
    /\ txResult = "none"
    /\ nbPartial = 0
    /\ nbPublish = 0
    /\ ttyOut = <<>>
    /\ ttyStart = ctorAppend(<<>>)
TtyAtRest ==
    /\ objPc = "none"
    /\ termios = "orig"
    /\ m_txBuffer = <<>>
    /\ txSent = 0
    /\ txFlushed = <<>>
    /\ txResult = "none"
    /\ nbPartial = 0
    /\ nbPublish = 0
    /\ ttyOut = <<>>
    /\ ttyStart = <<>>

\* What lastOp holds before any call: the call, the strings converted to
\* codepoints, the string handed to addStdU32String with the fields of
\* addStringsN as clipped, whether the call threw, the indices stored to, the
\* framebuffer, the size recorded and the number of painter calls before the
\* call, and for reset the size of the terminal window.
NoOp ==
    [call |-> NoCall, in32 |-> <<>>, str |-> <<>>, fields |-> <<>>, threw |-> FALSE,
     written |-> {}, before |-> <<>>, tty |-> [width |-> 0, height |-> 0],
     size |-> [width |-> 0, height |-> 0], paints |-> 0]

\* After the constructor of TermUi: the size is retrieved, the colours are those
\* of the initialiser list, reset() has run.
InitPaint(only) ==
    /\ termSize \in Sizes
    /\ m_tty = termSize
    /\ m_colorFg = DefaultFg
    /\ m_colorBg = DefaultBg
    /\ m_frameBuffer = [k \in 1..(termSize.width * termSize.height) |->
                           Cell_reset(DefaultFg, DefaultBg)]
    /\ appOnly = only
    /\ nbPaints = 0
    /\ lastOp = NoOp
    /\ TtyLive

\* No terminal object, for the specifications of the other parts.
PaintAtRest ==
    /\ termSize = [width |-> 0, height |-> 0]
    /\ m_tty = termSize
    /\ m_colorFg = DefaultFg
    /\ m_colorBg = DefaultBg
    /\ m_frameBuffer = <<>>
    /\ appOnly = NoCall
    /\ nbPaints = 0
    /\ lastOp = NoOp
    /\ TtyAtRest

\* The call and the state it is made in, for lastOp.
Called(call) ==
    [NoOp EXCEPT !.call = call, !.before = m_frameBuffer, !.tty = m_tty,
                 !.paints = nbPaints]

Flushing == objPc \in {"ctorFlush", "publishFlush", "dtorFlush"}

\* txFlush is entered with the buffer buf, by the operation pc.
txFlush_enter(buf, pc) ==
    /\ m_txBuffer' = buf
    /\ txFlushed' = buf
    /\ txSent' = 0
    /\ txResult' = "none"
    /\ nbPartial' = 0
    /\ ttyOut' = <<>>
    /\ objPc' = pc

\* TermUi::TermUi up to the txFlush of its publish(): the tty is opened and set
\* raw, its size retrieved, the setup commands appended, reset() and publish().
TermUi_construct ==
    /\ objPc = "none"
    /\ termios' = "raw"
    /\ m_tty' = termSize
    /\ m_frameBuffer' = resetCells(m_frameBuffer, termSize, m_colorFg, m_colorBg)
    /\ txFlush_enter(publish(ctorAppend(m_txBuffer), m_frameBuffer', m_tty'),
                     "ctorFlush")
    /\ lastOp' = [NoOp EXCEPT !.call = [NoCall EXCEPT !.op = "construct"],
                              !.size = termSize]
    /\ UNCHANGED <<termSize, m_colorFg, m_colorBg, appOnly, nbPaints, nbPublish,
                   ttyStart>>
    /\ UNCHANGED notTtyVars

\* TermUi::publish() called by the application, up to its txFlush.
TermUi_publish ==
    /\ objPc = "live"
    /\ nbPublish < MaxPublish
    /\ nbPublish' = nbPublish + 1
    /\ txFlush_enter(publish(m_txBuffer, m_frameBuffer, m_tty), "publishFlush")
    /\ lastOp' = Called([NoCall EXCEPT !.op = "publish"])
    /\ UNCHANGED <<termios, ttyStart>>
    /\ UNCHANGED <<termSize, m_tty, m_frameBuffer, m_colorFg, m_colorBg, appOnly,
                   nbPaints>>
    /\ UNCHANGED notTtyVars

\* TermUi::~TermUi up to its txFlush; it runs on a live object and when the
\* exception of a publish() unwinds the application.
TermUi_destruct ==
    /\ objPc \in {"live", "publishThrown"}
    /\ txFlush_enter(dtorAppend(m_txBuffer), "dtorFlush")
    /\ lastOp' = Called([NoCall EXCEPT !.op = "destruct"])
    /\ UNCHANGED <<termios, nbPublish, ttyStart>>
    /\ UNCHANGED <<termSize, m_tty, m_frameBuffer, m_colorFg, m_colorBg, appOnly,
                   nbPaints>>
    /\ UNCHANGED notTtyVars

\* One iteration of the loop of txFlush whose write returns n >= 0. When
\* nothing is left the buffer is cleared and the caller goes on: the
\* constructor and publish() return, the destructor returns and ~ScopedTty
\* restores the termios settings.
txFlush_write(n) ==
    /\ Flushing
    /\ n >= 0
    /\ txSent + n <= Len(m_txBuffer)
    /\ txSent + n < Len(m_txBuffer) => nbPartial < MaxPartial
    /\ txResult' = "written"
    /\ ttyOut' = ttyOut \o txWrite(m_txBuffer, txSent, n)
    /\ ttyStart' = SubSeq(ttyStart \o txWrite(m_txBuffer, txSent, n), 1,
                          Min(Len(ttyStart) + n, Len(ctorAppend(<<>>))))
    /\ IF txSent + n < Len(m_txBuffer)
       THEN /\ txSent' = txSent + n
            /\ nbPartial' = nbPartial + 1
            /\ UNCHANGED <<objPc, termios, m_txBuffer>>
       ELSE /\ txSent' = 0
            /\ m_txBuffer' = <<>>
            /\ objPc' = IF objPc = "dtorFlush" THEN "gone" ELSE "live"
            /\ termios' = IF objPc = "dtorFlush" THEN "orig" ELSE termios
            /\ UNCHANGED nbPartial
    /\ UNCHANGED <<txFlushed, nbPublish>>
    /\ UNCHANGED <<paintVars, notTtyVars>>

\* One iteration whose write fails with EINTR or EAGAIN: nbWritten = 0.
txFlush_retry(errno) ==
    /\ Flushing
    /\ txSent < Len(m_txBuffer)
    /\ txResult' = errno
    /\ UNCHANGED <<objPc, termios, m_txBuffer, txSent, txFlushed, nbPartial,
                   nbPublish, ttyOut, ttyStart>>
    /\ UNCHANGED <<paintVars, notTtyVars>>

\* One iteration whose write fails with another errno: TermUiExceptionErrno is
\* thrown. Out of the constructor it destroys m_tty, which restores the termios
\* settings; out of publish() it reaches the application; out of the
\* destructor it ends the program by std::terminate.
txFlush_throw ==
    /\ Flushing
    /\ txResult' = "error"
    /\ objPc' = CASE objPc = "ctorFlush" -> "failed"
                  [] objPc = "publishFlush" -> "publishThrown"
                  [] OTHER -> "terminated"
    /\ termios' = IF objPc = "ctorFlush" THEN "orig" ELSE termios
    /\ txSent' = 0
    /\ UNCHANGED <<m_txBuffer, txFlushed, nbPartial, nbPublish, ttyOut, ttyStart>>
    /\ UNCHANGED <<paintVars, notTtyVars>>

\* The user resizes the terminal window (the kernel then raises SIGWINCH).
TermResize(size) ==
    /\ size # termSize
    /\ termSize' = size
    /\ UNCHANGED <<m_tty, m_frameBuffer, m_colorFg, m_colorBg, appOnly, nbPaints,
                   lastOp>>
    /\ UNCHANGED notPaintVars

\* TermUi::reset(): retrieveSize, then the framebuffer resized and reset.
TermUi_reset ==
    /\ objPc = "live"
    /\ m_tty' = termSize
    /\ m_frameBuffer' = resetCells(m_frameBuffer, termSize, m_colorFg, m_colorBg)
    /\ nbPaints' = 0
    /\ lastOp' = [NoOp EXCEPT !.call = [NoCall EXCEPT !.op = "reset"],
                              !.tty = m_tty, !.size = termSize,
                              !.paints = nbPaints]
    /\ UNCHANGED <<termSize, m_colorFg, m_colorBg, appOnly>>
    /\ UNCHANGED notPaintVars

\* TermUi::setDefaultColors(colorFg, colorBg); the application calls it before it
\* starts to paint.
TermUi_setDefaultColors(colorFg, colorBg) ==
    /\ objPc = "live"
    /\ nbPaints = 0
    /\ m_colorFg' = colorFg
    /\ m_colorBg' = colorBg
    /\ lastOp' = [Called([NoCall EXCEPT !.op = "setDefaultColors",
                                        !.style = [colorFg |-> colorFg,
                                                   colorBg |-> colorBg, effect |-> 0]])
                  EXCEPT !.before = <<>>]
    /\ UNCHANGED <<termSize, m_tty, m_frameBuffer, appOnly, nbPaints>>
    /\ UNCHANGED notPaintVars

\* What every painter call leaves alone, and the count of the calls.
PainterCall(call, op) ==
    /\ call.op = op
    /\ objPc = "live"
    /\ nbPaints < MaxPaints
    /\ nbPaints' = nbPaints + 1
    /\ UNCHANGED <<termSize, m_tty, m_colorFg, m_colorBg, appOnly>>
    /\ UNCHANGED notPaintVars

\* TermUi::addGlyph(y, x, glyph, colorFg, colorBg, effect)
TermUi_addGlyph(call) ==
    /\ PainterCall(call, "addGlyph")
    /\ m_frameBuffer' = addGlyph(m_frameBuffer, m_tty, call.y, call.x, call.glyph,
                                 call.style.colorFg, call.style.colorBg,
                                 call.style.effect)
    /\ lastOp' = Called(call)

\* TermUi::addString(y, x, str, colorFg, colorBg, effect)
TermUi_addString(call) ==
    /\ PainterCall(call, "addString")
    /\ LET strU32 == toU32String(call.in[1])
       IN  /\ m_frameBuffer' =
                IF strU32.threw THEN m_frameBuffer
                ELSE addStdU32String(m_frameBuffer, m_tty, call.y, call.x, strU32.str,
                                     call.style.colorFg, call.style.colorBg,
                                     call.style.effect)
           /\ lastOp' = [Called(call) EXCEPT !.in32 = <<strU32.str>>,
                                             !.str = strU32.str,
                                             !.threw = strU32.threw]

\* TermUi::addStringN(y, x, str, width, alignment, colorFg, colorBg, effect)
TermUi_addStringN(call) ==
    /\ PainterCall(call, "addStringN")
    /\ LET strU32 == toU32String(call.in[1])
           aligned == alignStringN(strU32.str, call.width, call.alignment)
           threw == strU32.threw \/ aligned.threw
       IN  /\ m_frameBuffer' =
                IF threw THEN m_frameBuffer
                ELSE addStdU32String(m_frameBuffer, m_tty, call.y, call.x, aligned.str,
                                     call.style.colorFg, call.style.colorBg,
                                     call.style.effect)
           /\ lastOp' = [Called(call) EXCEPT !.in32 = <<strU32.str>>,
                                             !.str = IF threw THEN <<>> ELSE aligned.str,
                                             !.threw = threw]

\* TermUi::addStringsN(y, x, strLeft, strMiddle, strRight, width, colorFg,
\* colorBg, effect)
TermUi_addStringsN(call) ==
    /\ PainterCall(call, "addStringsN")
    /\ LET left == toU32String(call.in[1])
           middle == toU32String(call.in[2])
           right == toU32String(call.in[3])
           built == buildStringsN(left.str, middle.str, right.str, call.width)
           threw == left.threw \/ middle.threw \/ right.threw \/ built.threw
       IN  /\ m_frameBuffer' =
                IF threw THEN m_frameBuffer
                ELSE addStdU32String(m_frameBuffer, m_tty, call.y, call.x, built.str,
                                     call.style.colorFg, call.style.colorBg,
                                     call.style.effect)
           /\ lastOp' = [Called(call) EXCEPT
                            !.in32 = <<left.str, middle.str, right.str>>,
                            !.str = IF threw THEN <<>> ELSE built.str,
                            !.fields = IF threw THEN <<>>
                                       ELSE <<built.left, built.middle, built.right>>,
                            !.threw = threw]

\* TermUi::addFString(y, x, formattedStr, width)
TermUi_addFString(call) ==
    /\ PainterCall(call, "addFString")
    /\ LET r == addFString(m_frameBuffer, m_tty, m_colorFg, m_colorBg, call.y, call.x,
                           call.in[1], call.width)
       IN  /\ m_frameBuffer' = r.fb
           /\ lastOp' = [Called(call) EXCEPT !.written = r.written]

\* TermUi::addMarkdown(y, x, str, width)
TermUi_addMarkdown(call) ==
    /\ PainterCall(call, "addMarkdown")
    /\ LET r == addMarkdown(m_frameBuffer, m_tty, m_colorFg, m_colorBg, call.y, call.x,
                            call.in[1], call.width)
       IN  /\ m_frameBuffer' = r.fb
           /\ lastOp' = [Called(call) EXCEPT !.threw = r.threw, !.written = r.written,
                                             !.in32 = r.lines]

\* TermUi::setColors(y, x, width, colorFg, colorBg)
TermUi_setColors(call) ==
    /\ PainterCall(call, "setColors")
    /\ m_frameBuffer' = setColors(m_frameBuffer, m_tty, call.y, call.x, call.width,
                                  call.style.colorFg, call.style.colorBg)
    /\ lastOp' = Called(call)

\* The painter calls of the application of SpecPaint, at positions (y, x) in the
\* grid and on each side of it.
PaintPositions == {<<0 - 1, 0>>, <<0, 0 - 1>>, <<0, 0>>, <<1, 2>>, <<0, 3>>, <<2, 0>>}
PaintFStrings == {<<<<buildColorFg(1), 65, buildEffect(kBold), 66>>, 3>>,
                  <<<<65, 66, 67, 68, 69>>, 0 - 1>>,
                  <<<<>>, 5>>}
PaintCalls ==
    {GlyphCall(p[1], p[2], 65, BoldStyle) : p \in PaintPositions} \cup
    {GlyphCall(0, 0, Space, DefaultStyle)} \cup
    {StringCall(p[1], p[2], LeftText(2), BoldStyle) : p \in PaintPositions} \cup
    {StringCall(0, 0, BadText, BoldStyle)} \cup
    {StringNCall(p[1], p[2], LeftText(2), 3, kCentered, BoldStyle) :
        p \in PaintPositions} \cup
    {StringsNCall(p[1], p[2], LeftText(1), <<>>, RightText(1), 3, BoldStyle) :
        p \in PaintPositions} \cup
    {FStringCall(p[1], p[2], f[1], f[2]) : p \in PaintPositions, f \in PaintFStrings} \cup
    {FStringCall(0, 0, <<65, 66>>, 0)} \cup
    {MarkdownCall(p[1], p[2], <<42, 42, 97, 42, 42, 98, 10, 45>>, 2) :
        p \in PaintPositions} \cup
    {MarkdownCall(p[1], p[2], <<97, 10, 98>>, 0 - 1) : p \in {<<0 - 2, 0>>, <<0, 0>>}} \cup
    {MarkdownCall(0, 0, <<97, 10, 255>>, 2)} \cup
    {ColorsCall(p[1], p[2], w, BoldStyle) : p \in PaintPositions, w \in {2, 5}} \cup
    {ColorsCall(0, 0, 0 - 1, BoldStyle)}

\* The painter calls the application makes.
AppCalls == IF appOnly = NoCall THEN PaintCalls ELSE {appOnly}

\* The application calls one of its painters.
Paint ==
    \E call \in AppCalls :
        \/ TermUi_addGlyph(call)
        \/ TermUi_addString(call)
        \/ TermUi_addStringN(call)
        \/ TermUi_addStringsN(call)
        \/ TermUi_addFString(call)
        \/ TermUi_addMarkdown(call)
        \/ TermUi_setColors(call)

NextPaint ==
    \/ \E size \in Sizes : TermResize(size)
    \/ TermUi_reset
    \/ \E c \in {<<DefaultFg, DefaultBg>>, <<3, 4>>} : TermUi_setDefaultColors(c[1], c[2])
    \/ Paint

NextAlign ==
    \E call \in AppCalls :
        \/ TermUi_addStringN(call)
        \/ TermUi_addStringsN(call)

\* Color::fromPalette, Color::fromRgb
fromPalette(paletteIndex) == paletteIndex
fromRgb(red, green, blue) == rgbMask + red * 65536 + green * 256 + blue

\* The formatted strings of the application of SpecFormat: up to MaxFmtLen of
\* 'A', 'B' and sentinels of a foreground colour, a background colour and an
\* effect, and the string [FG(palette 1), 'A', EFFECT(Bold), 'B'].
FormatAlphabet == {65, 66, buildColorFg(fromPalette(1)), buildColorBg(fromPalette(2)),
                   buildEffect(kBold)}
FormatStrings ==
    UNION {[1..n -> FormatAlphabet] : n \in 0..MaxFmtLen} \cup
    {<<buildColorFg(fromPalette(1)), 65, buildEffect(kBold), 66>>}

\* A formatted string that sets a style by three sentinels built from it and
\* holds one glyph; the call records the style.
FormatColors == {fromPalette(0), fromPalette(255), fromRgb(0, 0, 0), fromRgb(255, 128, 1)}
FormatEffects == {0, kBold, kBold + kItalic + kUnderline + kCrossedOut}
SentinelCall(colorFg, colorBg, effect) ==
    [FStringCall(0, 0, <<buildColorFg(colorFg), buildColorBg(colorBg),
                         buildEffect(effect), 65>>, 1)
        EXCEPT !.style = [colorFg |-> colorFg, colorBg |-> colorBg, effect |-> effect]]

\* The markdown texts: up to MaxMdLen of '*', '/', 'a' and the newline, and some
\* texts with the other delimiters.
MarkdownAlphabet == {42, 47, 97, 10}
MarkdownTexts ==
    UNION {[1..n -> MarkdownAlphabet] : n \in 0..MaxMdLen} \cup
    {<<95, 95, 97, 45, 45, 98, 95, 95, 99, 45, 45>>,
     <<42, 42, 97, 10, 98>>,
     <<42, 42, 95, 95, 47, 47, 45, 45, 97>>,
     <<45, 45, 45, 97, 95, 95, 95, 95, 98>>,
     <<42, 95, 42, 95, 45, 47, 45>>,
     <<95, 95, 97, 10, 98, 45, 45, 10, 10, 99>>}

FormatCalls ==
    {FStringCall(p[1], p[2], f, w) :
        p \in {<<0, 0>>, <<1, 1>>}, f \in FormatStrings, w \in {0, 1, 3, 5}} \cup
    {SentinelCall(fg, bg, e) :
        fg \in FormatColors, bg \in FormatColors, e \in FormatEffects} \cup
    {MarkdownCall(p[1], p[2], t, 2) :
        p \in {<<0 - 1, 0>>, <<0, 0>>, <<1, 1>>}, t \in MarkdownTexts}

NextFormat ==
    \/ TermUi_setDefaultColors(3, 4)
    \/ \E call \in AppCalls : TermUi_addFString(call)
    \/ \E call \in AppCalls : TermUi_addMarkdown(call)

\* The painter calls of the application of SpecTty: glyphs of one, two and
\* three bytes, colours of the low palette, of the high palette and in RGB, a
\* colour value that neither fromPalette nor fromRgb builds, effects of no
\* bit, one bit and several bits, on cells that follow each other in a row
\* and across the end of a row, and a cell that differs from the cells around
\* it by one colour only.
RgbStyle ==
    [colorFg |-> fromRgb(255, 128, 1), colorBg |-> fromRgb(0, 0, 0),
     effect |-> kBold + kItalic + kCrossedOut]
FrameCalls ==
    {FStringCall(0, 0, <<buildColorFg(fromPalette(1)), buildColorBg(fromPalette(4)),
                         buildEffect(kBold), 65, buildEffect(0), 67,
                         buildColorFg(fromPalette(200)),
                         buildColorBg(fromPalette(9)), 233>>, 3),
     StringCall(0, 1, Utf8OfSeq(<<8364, 8364>>), RgbStyle),
     GlyphCall(0, 0, 69, RgbStyle),
     GlyphCall(0, 2, 68, [colorFg |-> fromRgb(1, 2, 3), colorBg |-> 2064385,
                          effect |-> kBold]),
     GlyphCall(1, 0, 66, [colorFg |-> DefaultFg, colorBg |-> DefaultBg,
                          effect |-> kUnderline]),
     GlyphCall(1, 1, 70, [colorFg |-> fromPalette(3), colorBg |-> DefaultBg,
                          effect |-> 0])}

\* What write may return for a request of some bytes.
WriteSizes == {0, 1, MaxChunk, Len(m_txBuffer) - txSent}

NextTty ==
    \/ TermUi_construct
    \/ \E call \in FrameCalls : TermUi_addGlyph(call)
    \/ \E call \in FrameCalls : TermUi_addString(call)
    \/ \E call \in FrameCalls : TermUi_addFString(call)
    \/ TermUi_publish
    \/ TermUi_destruct
    \/ \E n \in WriteSizes : txFlush_write(n)
    \/ \E errno \in {"EINTR", "EAGAIN"} : txFlush_retry(errno)
    \/ txFlush_throw

\* The life of a TermUi object in a window that changes size: resets and
\* changes of the default colours between the painter calls and the publishes.
NextSize ==
    \/ NextTty
    \/ \E size \in Sizes : TermResize(size)
    \/ TermUi_reset
    \/ TermUi_setDefaultColors(3, 4)

(***************************************************************************)
(* Specifications                                                          *)
(***************************************************************************)

\* The tty decoder at rest, for the specifications of the loop.
InputAtRest ==
    /\ input = <<>>
    /\ arrived = 0
    /\ nbRead = 0
    /\ m_rxBuffer = <<>>
    /\ m_rxMbState = <<>>
    /\ mbErrKeepsState = TRUE
    /\ ttyPc = "idle"
    /\ events = <<>>
    /\ lastIter = [kind |-> "none", filled |-> <<>>, first |-> 1, mbs |-> <<>>,
                   nbEvents |-> 0]

Init == InitLoop /\ InputAtRest /\ PollAtRest /\ PaintAtRest

\* The main loop with threads requesting termination, signals and a user descriptor.
Spec == Init /\ [][Next]_vars

\* The same, where the loop thread keeps running and a thread that entered
\* requestTermination finishes the call.
FairSpec ==
    /\ Spec
    /\ WF_vars(LoopStep)
    /\ \A t \in Threads : WF_vars(ThreadStep(t))

\* The same, where moreover epoll_wait is not interrupted for ever: signals are
\* blocked and read from the signal-fd (csys.cpp:162-176), so that EINTR is the
\* exception, and epoll_wait called again and again with a descriptor readable
\* eventually returns it.
FairDispatchSpec ==
    /\ FairSpec
    /\ SF_vars(WaitReturn)

\* The byte strings the terminal sends are made of these pieces: the bytes the
\* decoder distinguishes, one by one, and whole keys.
Tokens == {
    <<27>>,                        \* ESC
    <<79>>, <<65>>,                \* 'O' 'A' (ESC O A is ArrowUp)
    <<91>>,                        \* '['
    <<120>>,                       \* 'x'
    <<1>>,                         \* Ctrl+A
    <<0>>,                         \* NUL
    <<255>>,                       \* never valid in UTF-8
    <<195>>, <<169>>,              \* U+00E9 is C3 A9
    <<226, 130, 172>>,             \* U+20AC
    <<27, 79, 65>>,                \* ArrowUp
    <<27, 91, 49>>,                \* ESC [ 1, a proper prefix of ESC [ 1 ; 5 D
    <<27, 91, 49, 59, 53, 68>>     \* Ctrl+ArrowLeft
}

RECURSIVE Inputs(_)
Inputs(n) ==
    IF n = 0 THEN {<<>>}
    ELSE LET shorter == Inputs(n - 1)
         IN  shorter \cup {a \o t : <<a, t>> \in shorter \X Tokens}

InitInput ==
    /\ InitLoop
    /\ PollAtRest
    /\ PaintAtRest
    /\ input \in Inputs(MaxTokens)
    /\ mbErrKeepsState \in BOOLEAN
    /\ arrived = 0
    /\ nbRead = 0
    /\ m_rxBuffer = <<>>
    /\ m_rxMbState = <<>>
    /\ ttyPc = "idle"
    /\ events = <<>>
    /\ lastIter = [kind |-> "none", filled |-> <<>>, first |-> 1, mbs |-> <<>>,
                   nbEvents |-> 0]

\* The tty read handler under every fragmentation of the byte stream.
SpecInput == InitInput /\ [][NextInput]_vars


\* What follows the escape sequence in the streams of SpecEsc.
EscTails == {<<>>, <<120>>, <<126, 65>>, <<27, 79, 65>>}

\* ESC and one recognised sequence, for every sequence of the trie, and a tail.
InitEsc ==
    /\ InitLoop
    /\ PollAtRest
    /\ PaintAtRest
    /\ input \in {<<27>> \o e.seq \o t : <<e, t>> \in EscSeqTrie \X EscTails}
    /\ mbErrKeepsState \in BOOLEAN
    /\ arrived = 0
    /\ nbRead = 0
    /\ m_rxBuffer = <<>>
    /\ m_rxMbState = <<>>
    /\ ttyPc = "idle"
    /\ events = <<>>
    /\ lastIter = [kind |-> "none", filled |-> <<>>, first |-> 1, mbs |-> <<>>,
                   nbEvents |-> 0]

\* The tty read handler on every recognised escape sequence, under every
\* fragmentation.
SpecEsc == InitEsc /\ [][NextInput]_vars

\* The bytes that follow ESC in the streams of SpecSearch: every prefix of a
\* sequence of the table or of the trie, the empty one and the whole sequence
\* included, followed by nothing, by one byte (each byte of the sequences, and
\* 'x'), or by such a byte and one of '~', 'A' and 'x'.
SeqBytes == UNION {{q[k] : k \in DOMAIN q} : q \in {e.seq : e \in EscSeqTrie}} \cup {120}
SeqPrefixes ==
    {SubSeq(q, 1, n) : <<q, n>> \in
        {<<q, n>> \in ({e.seq : e \in EscSeqTrie}
                       \cup {keyDefinitions[k].escSeq : k \in DOMAIN keyDefinitions})
                      \X (0..5) : n <= Len(q)}}
SearchData ==
    {p \o t : <<p, t>> \in SeqPrefixes \X
        ({<<>>} \cup {<<b>> : b \in SeqBytes}
               \cup {<<b, c>> : <<b, c>> \in SeqBytes \X {126, 65, 120}})}

\* The tty read handler on ESC followed by these bytes, all in the queue of
\* the tty when the handler is called.
InitSearch ==
    /\ InitLoop
    /\ PollAtRest
    /\ PaintAtRest
    /\ input \in {<<27>> \o d : d \in SearchData}
    /\ mbErrKeepsState \in BOOLEAN
    /\ arrived = Len(input)
    /\ nbRead = 0
    /\ m_rxBuffer = <<>>
    /\ m_rxMbState = <<>>
    /\ ttyPc = "idle"
    /\ events = <<>>
    /\ lastIter = [kind |-> "none", filled |-> <<>>, first |-> 1, mbs |-> <<>>,
                   nbEvents |-> 0]
NextSearch ==
    \/ readTtyHandler
    \/ readTtyIteration
SpecSearch == InitSearch /\ [][NextSearch]_vars

\* The painters on the framebuffer, with resets, changes of the default colours
\* and resizes of the terminal window.
InitPainters ==
    /\ InitLoop /\ InputAtRest /\ PollAtRest
    /\ InitPaint(NoCall)

SpecPaint == InitPainters /\ [][NextPaint]_vars

\* Every call of addStringN and addStringsN with strings of up to MaxStrLen
\* characters: the application makes one of them.
AlignWidths == {0 - 4, 0 - 1} \cup (0 .. 2 * MaxStrLen + 2)
AlignPositions == {<<0, 0>>, <<1, 1>>}
AlignCalls ==
    {StringNCall(p[1], p[2], s, w, a, BoldStyle) :
        p \in AlignPositions, s \in {LeftText(n) : n \in 0..MaxStrLen} \cup {BadText},
        w \in AlignWidths, a \in {kLeft, kRight, kCentered, kLeft + kClipStart,
                                  kRight + kClipStart, kCentered + kClipStart}} \cup
    {StringsNCall(p[1], p[2], LeftText(l), MiddleText(m), RightText(r), w, BoldStyle) :
        p \in AlignPositions, l \in 0..MaxStrLen, m \in 0..MaxStrLen, r \in 0..MaxStrLen,
        w \in AlignWidths}

InitAlign ==
    /\ InitLoop /\ InputAtRest /\ PollAtRest
    /\ \E call \in AlignCalls : InitPaint(call)

SpecAlign == InitAlign /\ [][NextAlign]_vars

\* Every call of addFString and addMarkdown with the strings above: the
\* application makes one of them, after it has set its default colours or not.
InitFormat ==
    /\ InitLoop /\ InputAtRest /\ PollAtRest
    /\ \E call \in FormatCalls : InitPaint(call)

SpecFormat == InitFormat /\ [][NextFormat]_vars

\* Insert and Delete with a modifier as the terminal sends them: ESC [ key ;
\* modifier ~ with key 2 (Insert) or 3 (Delete).
ModKeySeq(key, modifier) == <<27, 91, 48 + key, 59, 48 + modifier, 126>>

\* The tty read handler on Insert and Delete with the modifiers 1, 2 and 5,
\* followed by a tail, under every fragmentation.
InitModKeys ==
    /\ InitLoop
    /\ PollAtRest
    /\ PaintAtRest
    /\ input \in {ModKeySeq(key, modifier) \o t :
                     key \in {2, 3}, modifier \in {1, 2, 5}, t \in EscTails}
    /\ mbErrKeepsState \in BOOLEAN
    /\ arrived = 0
    /\ nbRead = 0
    /\ m_rxBuffer = <<>>
    /\ m_rxMbState = <<>>
    /\ ttyPc = "idle"
    /\ events = <<>>
    /\ lastIter = [kind |-> "none", filled |-> <<>>, first |-> 1, mbs |-> <<>>,
                   nbEvents |-> 0]
SpecModKeys == InitModKeys /\ [][NextInput]_vars

\* UTF-8 of a codepoint, and the codepoints the terminal sends in SpecCodepoints:
\* the control characters, and characters of one to four bytes.
Utf8Of(c) ==
    IF c < 65536 THEN Utf8Encode(c)
    ELSE <<240 + (c \div 262144), 128 + ((c \div 4096) % 64), 128 + ((c \div 64) % 64),
           128 + (c % 64)>>
Codepoints == (1..26) \cup {28, 31, 32, 65, 127, 128, 233, 8364, 65536, 1114111}

\* The tty read handler on one codepoint followed by a tail, under every
\* fragmentation.
InitCodepoints ==
    /\ InitLoop
    /\ PollAtRest
    /\ PaintAtRest
    /\ input \in {Utf8Of(c) \o t : c \in Codepoints, t \in {<<>>, <<120>>, <<13, 9>>}}
    /\ mbErrKeepsState \in BOOLEAN
    /\ arrived = 0
    /\ nbRead = 0
    /\ m_rxBuffer = <<>>
    /\ m_rxMbState = <<>>
    /\ ttyPc = "idle"
    /\ events = <<>>
    /\ lastIter = [kind |-> "none", filled |-> <<>>, first |-> 1, mbs |-> <<>>,
                   nbEvents |-> 0]
SpecCodepoints == InitCodepoints /\ [][NextInput]_vars

\* The life of a TermUi object, from before its construction: what it sends to
\* the tty. The fair specification lets every write that can take bytes do so
\* in the end.
InitTty ==
    /\ InitLoop /\ InputAtRest /\ PollAtRest
    /\ termSize \in Sizes
    /\ m_tty = [width |-> 0, height |-> 0]
    /\ m_colorFg = DefaultFg
    /\ m_colorBg = DefaultBg
    /\ m_frameBuffer = <<>>
    /\ appOnly = NoCall
    /\ nbPaints = 0
    /\ lastOp = NoOp
    /\ TtyAtRest
SpecTty == InitTty /\ [][NextTty]_vars
SpecSize == InitTty /\ [][NextSize]_vars
TxProgress == \E n \in WriteSizes : n > 0 /\ txFlush_write(n)
FairSpecTty == SpecTty /\ WF_vars(TxProgress)

\* Poll::add and Poll::remove on descriptors that are also closed.
InitPoll ==
    /\ InitLoop /\ InputAtRest /\ PaintAtRest
    /\ PollAtRest

SpecPoll == InitPoll /\ [][NextPoll]_vars

\* Poll::waitAndProcessEvents with handlers that remove descriptors.
InitDispatch ==
    /\ InitLoop /\ InputAtRest /\ PaintAtRest
    /\ PollAtRest
SpecDispatch == InitDispatch /\ [][NextDispatch]_vars

(***************************************************************************)
(* Claims about the main loop                                              *)
(***************************************************************************)

\* C1: when runForever has returned, the value it returned is the exit status of
\* the termination request that first set the exit flag (never the initial
\* EXIT_SUCCESS, never the status of a later request).
C1_ReturnsFirstStatus ==
    loopPc = "done" => retVal = firstStatus

\* C2: once a requestTermination call has returned while runForever was blocked
\* in its wait, no user callback is invoked any more, neither a descriptor
\* callback nor a signal callback.
C2_NoCallbackAfterTermination ==
    \A i \in DOMAIN callLog : ~callLog[i].afterTerm

\* C3: every requestTermination call, whenever it is made, eventually makes
\* runForever return: the wakeup of the event-fd is never lost.
C3_TerminationWakesLoop ==
    \A t \in Threads : (thrPc[t] # "idle") ~> (loopPc = "done")

\* C3, witness: runForever returned after a requestTermination call that was made
\* and completed while the loop was blocked in epoll_wait with nothing ready.
C3_Witness ==
    /\ loopPc = "done"
    /\ termDone
    /\ \E t \in Threads : thrPc[t] = "done"

\* C10: when signalHandlerDispatch acts on the signal it read and termination has
\* not been requested: if a callback is registered for the signal, it is invoked
\* with the signal number and termination is not requested; otherwise termination
\* is requested with the signal number as exit status, and runForever returns it.
C10_DispatchStep ==
    (loopPc = "sigact" /\ loopPc' # "sigact" /\ ~m_exitRequested) =>
        IF fdsi \in m_signalCbks
        THEN /\ Len(callLog') = Len(callLog) + 1
             /\ callLog'[Len(callLog')].kind = "sig"
             /\ callLog'[Len(callLog')].arg = fdsi
             /\ ~m_exitRequested'
             /\ m_exitStatus' = m_exitStatus
        ELSE /\ callLog' = callLog
             /\ m_exitRequested'
             /\ m_exitStatus' = fdsi
             /\ sigTermStatus' = fdsi

C10_SignalDispatch ==
    /\ [][C10_DispatchStep]_vars
    /\ []((loopPc = "done" /\ sigTermStatus # NoValue) => retVal = sigTermStatus)

\* C10, witness: the callback registered for SIGWINCH was invoked with SIGWINCH,
\* then the unhandled SIGINT made runForever return SIGINT.
C10_Witness ==
    /\ loopPc = "done"
    /\ sigTermStatus = SIGINT
    /\ retVal = SIGINT
    /\ \E i \in DOMAIN callLog : callLog[i].kind = "sig" /\ callLog[i].arg = SIGWINCH

(***************************************************************************)
(* Claims about the input decoder                                          *)
(***************************************************************************)
EscSeqs == {e.seq : e \in EscSeqTrie}
IsProperPrefixOfSeq(p) == \E q \in EscSeqs : Len(p) < Len(q) /\ IsPrefix(p, q)
HasSeqPrefix(d) == \E q \in EscSeqs : IsPrefix(q, d)
EventCodes(evs) == [k \in DOMAIN evs |-> evs[k].code]
LastEvent == events[Len(events)]

\* The handler has returned and nothing is left to arrive or to read.
Quiescent ==
    /\ arrived = Len(input)
    /\ nbRead = arrived
    /\ ttyPc = "idle"
    /\ lastIter.kind = "break"

\* The events delivered when the whole stream is in the tty queue before the
\* handler is called for the first time (it is called again while the queue is
\* not empty).
RECURSIVE RunAll(_, _, _, _)
RunAll(buf, ps, nRead, evs) ==
    LET queue == [k \in 1..(Len(input) - nRead) |->
                     [b |-> input[nRead + k], i |-> nRead + k]]
        it == LoopIteration(buf, ps, queue, mbErrKeepsState)
        nRead2 == nRead + (Len(it.filled) - Len(buf))
    IN  IF it.kind = "event" THEN RunAll(it.buf, it.ps, nRead2, Append(evs, it.event))
        ELSE IF nRead2 < Len(input) THEN RunAll(it.buf, it.ps, nRead2, evs)
        ELSE evs

OneShotEvents == RunAll(<<>>, <<>>, 0, <<>>)

\* The stream is one key: ESC and a recognised sequence, or one multi-byte
\* UTF-8 codepoint.
IsSingleKey(str) ==
    \/ \E e \in EscSeqTrie : str = <<27>> \o e.seq
    \/ Len(str) >= 2 /\ mbrtoc32(str, <<>>, TRUE).rc = Len(str)

\* C4: the events delivered for a byte stream do not depend on how its bytes are
\* split across reads: once a recognised escape sequence or a multi-byte UTF-8
\* codepoint has arrived, in whatever fragments, and the handler has returned,
\* the events delivered are those delivered when it arrives in one read.
C4_FragmentationIndependent ==
    (Quiescent /\ IsSingleKey(input)) => EventCodes(events) = OneShotEvents

\* C5: when an iteration of the handler, with no incomplete UTF-8 sequence pending
\* in the decoder state, has ESC followed by a complete recognised sequence at the
\* head of the buffer, it delivers exactly one event, the one of the trie for that
\* sequence, decoded from the ESC and the bytes of the sequence, and leaves the
\* bytes that follow in the buffer.
C5_RecognisedSequence ==
    \A e \in EscSeqTrie :
        (/\ lastIter.kind # "none"
         /\ lastIter.mbs = <<>>
         /\ IsPrefix(<<27>> \o e.seq, lastIter.filled)) =>
            /\ lastIter.kind = "event"
            /\ Len(events) = lastIter.nbEvents + 1
            /\ LastEvent.code = e.event
            /\ LastEvent.src = lastIter.first..(lastIter.first + Len(e.seq))
            /\ Bytes(m_rxBuffer) =
                  SubSeq(lastIter.filled, Len(e.seq) + 2, Len(lastIter.filled))

\* C5, witness: ESC [ 1 ; 5 D gave Ctrl|ArrowLeft and an empty buffer.
C5_Witness ==
    /\ lastIter.kind = "event"
    /\ lastIter.filled = <<27, 91, 49, 59, 53, 68>>
    /\ LastEvent.code = ctrlMask + Key.kArrowLeft
    /\ m_rxBuffer = <<>>

\* C6: when an iteration of the handler has ESC followed by a (non-empty) proper
\* prefix of a recognised sequence at the head of the buffer, and nothing else, it
\* delivers no event and leaves all these bytes, the ESC included, in the buffer.
C6_PrefixIsKept ==
    (/\ lastIter.kind # "none"
     /\ lastIter.mbs = <<>>
     /\ Len(lastIter.filled) >= 2
     /\ lastIter.filled[1] = 27
     /\ IsProperPrefixOfSeq(Tail(lastIter.filled))) =>
        /\ lastIter.kind = "break"
        /\ Len(events) = lastIter.nbEvents
        /\ Bytes(m_rxBuffer) = lastIter.filled

\* C7: when an iteration of the handler, with no incomplete UTF-8 sequence pending
\* in the decoder state, has ESC at the head of the buffer followed by bytes that
\* neither start with a recognised sequence nor are a prefix of one, it delivers a
\* bare Escape event decoded from the ESC byte alone and leaves the following bytes
\* in the buffer; and the event delivered after a bare Escape, when the byte after
\* the ESC is printable ASCII, is that byte, decoded from it alone.
C7_UnmatchedEscape ==
    /\ (/\ lastIter.kind # "none"
        /\ lastIter.mbs = <<>>
        /\ Len(lastIter.filled) >= 2
        /\ lastIter.filled[1] = 27
        /\ ~IsProperPrefixOfSeq(Tail(lastIter.filled))
        /\ ~HasSeqPrefix(Tail(lastIter.filled))) =>
            /\ lastIter.kind = "event"
            /\ Len(events) = lastIter.nbEvents + 1
            /\ LastEvent.code = kEscape
            /\ LastEvent.src = {lastIter.first}
            /\ Bytes(m_rxBuffer) = Tail(lastIter.filled)
    /\ \A k \in 1..(Len(events) - 1) :
        (events[k].code = kEscape) =>
            \A i \in events[k].src :
                (i + 1 <= Len(input) /\ input[i + 1] >= 32 /\ input[i + 1] <= 126) =>
                    events[k + 1] = [code |-> input[i + 1], src |-> {i + 1}]

\* C7, witness: ESC x gave Escape, then x.
C7_Witness ==
    /\ input = <<27, 120>>
    /\ events = <<[code |-> kEscape, src |-> {1}], [code |-> 120, src |-> {2}]>>

\* C8: every event is decoded from at least one byte, and the bytes of an event
\* all come after the bytes of the event delivered before it: the events are in
\* the order of the bytes of the stream and no byte contributes to two events.
C8_EventsInByteOrder ==
    \A j \in 1..Len(events) :
        /\ events[j].src # {}
        /\ j > 1 => \A a \in events[j - 1].src, b \in events[j].src : a < b

\* C8, witness: a key of three bytes, then a second event.
C8_Witness ==
    /\ Len(events) = 2
    /\ Cardinality(events[1].src) = 3

\* C9: when the read handler returns, the read buffer holds no complete decodable
\* codepoint: it is empty or holds an incomplete multi-byte sequence.
C9_HandlerDrainsBuffer ==
    (ttyPc = "idle" /\ lastIter.kind = "break") =>
        \/ m_rxBuffer = <<>>
        \/ mbrtoc32(Bytes(m_rxBuffer), <<>>, TRUE).rc = 0 - 2

(***************************************************************************)
(* Claims about the signal dispatcher and Poll::add                        *)
(***************************************************************************)
NbSignalCallbacks == Cardinality({i \in DOMAIN callLog : callLog[i].kind = "sig"})

\* C11: each time the signal-fd of the batch is handled, signalHandlerDispatch
\* takes exactly one record off the signal-fd, and when termination is not
\* requested it acts on that record before anything else is read; it invokes the
\* registered callback exactly once, with the signal of the record, and no other
\* step invokes a signal callback or takes a record; epoll_wait reports the
\* signal-fd as long as a record is pending.  So while termination is not
\* requested, the callbacks invoked are as many as the records read (none is
\* merged or dropped), and every pending record is eventually read unless
\* termination is requested.
C11_DispatchStep ==
    /\ (loopPc = "dispatch" /\ batch # <<>> /\ Head(batch) = "signal"
        /\ batch' = Tail(batch)) =>
            /\ fdsi' \in sigPending
            /\ sigPending' = sigPending \ {fdsi'}
            /\ callLog' = callLog
            /\ (~m_exitRequested => loopPc' = "sigact")
    /\ (\E sig \in sigPending : sig \notin sigPending') =>
            (loopPc = "dispatch" /\ batch # <<>> /\ Head(batch) = "signal")
    /\ (loopPc = "sigact" /\ loopPc' # "sigact" /\ fdsi \in m_signalCbks) =>
            /\ Len(callLog') = Len(callLog) + 1
            /\ SubSeq(callLog', 1, Len(callLog)) = callLog
            /\ callLog'[Len(callLog')].kind = "sig"
            /\ callLog'[Len(callLog')].arg = fdsi
    /\ (Len(callLog') > Len(callLog) /\ callLog'[Len(callLog')].kind = "sig") =>
            (loopPc = "sigact" /\ Len(callLog') = Len(callLog) + 1)
    /\ (loopPc = "wait" /\ loopPc' = "dispatch" /\ sigPending # {}) =>
            \E i \in DOMAIN batch' : batch'[i] = "signal"

C11_OneCallbackPerRecord ==
    /\ [][C11_DispatchStep]_vars
    /\ [](~m_exitRequested =>
            NbSignalCallbacks + (IF loopPc = "sigact" THEN 1 ELSE 0)
                = nbSignals - Cardinality(sigPending))
    /\ \A sig \in Signals :
            (sig \in sigPending) ~> (sig \notin sigPending \/ m_exitRequested)

\* C11, witness: two SIGWINCH records were read in two dispatches and the
\* callback registered for SIGWINCH was invoked twice, termination not requested.
C11_Witness ==
    /\ ~m_exitRequested
    /\ sigPending = {}
    /\ nbSignals = 2
    /\ Len(callLog) = 2
    /\ \A i \in DOMAIN callLog : callLog[i].kind = "sig" /\ callLog[i].arg = SIGWINCH

\* C12: after a call of Poll::add that failed (invalid descriptor, descriptor
\* already monitored, or epoll_ctl failed after the entry was inserted), the
\* monitored map, handlers included, equals its value before the call; and add of
\* a descriptor that is in the map fails.
C12_FailedAddKeepsMap ==
    pollLast.op = "add" =>
        /\ pollLast.fd \in DOMAIN pollLast.before => pollLast.result = "conflict"
        /\ pollLast.result # "ok" => m_monitoredFds = pollLast.before

\* C12, witness: epoll_ctl failed in an add to a map that held another
\* descriptor, and the map is as before.
C12_Witness ==
    /\ pollLast.op = "add"
    /\ pollLast.result = "errno"
    /\ DOMAIN pollLast.before # {}
    /\ pollLast.fd \notin DOMAIN m_monitoredFds

(***************************************************************************)
(* Claims about the painters                                               *)
(***************************************************************************)
Painters == {"addGlyph", "addString", "addStringN", "addStringsN", "addFString",
             "addMarkdown", "setColors"}

\* The last call was given a start position inside the grid.
RowInGrid == lastOp.call.y >= 0 /\ lastOp.call.y < lastOp.tty.height
ColInGrid == lastOp.call.x >= 0 /\ lastOp.call.x < lastOp.tty.width

\* The number of lines addMarkdown paints for a text.
NbLines(str) == 1 + Cardinality({k \in 1..(Len(str) - 1) : str[k] = 10})

\* The cell of a glyph painted with the style of the last call.
StyledCell(glyph) ==
    [glyph |-> glyph, effect |-> lastOp.call.style.effect,
     colorFg |-> lastOp.call.style.colorFg, colorBg |-> lastOp.call.style.colorBg]

\* The framebuffer before the last call with the glyphs of row put in row y
\* from column x on, those that fall in the grid.
WithRow(row) ==
    [k \in DOMAIN lastOp.before |->
        LET cy == (k - 1) \div lastOp.tty.width
            cx == (k - 1) % lastOp.tty.width
        IN  IF cy = lastOp.call.y /\ cx >= lastOp.call.x
               /\ cx < lastOp.call.x + Len(row)
            THEN StyledCell(row[cx - lastOp.call.x + 1])
            ELSE lastOp.before[k]]

C14_FStringWithinWidth ==
    lastOp.call.op = "addFString" =>
        /\ Cardinality(lastOp.written)
              <= Max(0, Min(lastOp.call.width, lastOp.tty.width - lastOp.call.x))
        /\ \A p \in lastOp.written :
              /\ p >= lastOp.call.y * lastOp.tty.width + lastOp.call.x
              /\ p < (lastOp.call.y + 1) * lastOp.tty.width
              /\ p < Len(lastOp.before)
        /\ \A k \in DOMAIN m_frameBuffer :
              m_frameBuffer[k] # lastOp.before[k] => (k - 1) \in lastOp.written

\* C15: addGlyph(y, x, g, fg, bg, e) with (y, x) in the grid sets the cell at
\* index y * width + x to {g, e, fg, bg} and leaves every other cell unchanged.
C15_AddGlyphSetsOneCell ==
    (lastOp.call.op = "addGlyph" /\ RowInGrid /\ ColInGrid) =>
        /\ Len(m_frameBuffer) = Len(lastOp.before)
        /\ \A k \in DOMAIN m_frameBuffer :
              m_frameBuffer[k] =
                 IF k - 1 = lastOp.call.y * lastOp.tty.width + lastOp.call.x
                 THEN StyledCell(lastOp.call.glyph)
                 ELSE lastOp.before[k]

\* C15, witness: a glyph was put in the last cell of a 3 x 2 grid that an earlier
\* painter call had changed.
C15_Witness ==
    /\ lastOp.call.op = "addGlyph"
    /\ lastOp.tty = [width |-> 3, height |-> 2]
    /\ lastOp.call.y = 1
    /\ lastOp.call.x = 2
    /\ lastOp.paints = 1
    /\ \E k \in DOMAIN lastOp.before : lastOp.before[k].glyph # Space
    /\ m_frameBuffer[6].glyph = 65

\* C16: after reset(), the framebuffer has width * height cells for the size
\* (width, height) of the terminal window at the call, which is the size the
\* object records, and every cell is {space, no effect, default foreground,
\* default background} for the default colours last given to setDefaultColors
\* (those of the constructor if it was never called).
C16_ResetBlanksAll ==
    lastOp.call.op = "reset" =>
        /\ m_tty = lastOp.size
        /\ Len(m_frameBuffer) = lastOp.size.width * lastOp.size.height
        /\ \A k \in DOMAIN m_frameBuffer :
              m_frameBuffer[k] = [glyph |-> Space, effect |-> 0,
                                  colorFg |-> m_colorFg, colorBg |-> m_colorBg]

\* C16, witness: reset() after the default colours were changed, the framebuffer
\* painted and the terminal window resized.
C16_Witness ==
    /\ lastOp.call.op = "reset"
    /\ lastOp.paints > 0
    /\ lastOp.tty # m_tty
    /\ m_colorFg # DefaultFg
    /\ Len(m_frameBuffer) = 6

\* A row of n spaces.
Spaces(n) == [k \in 1..n |-> Space]

\* The last call was given strings that are valid UTF-8.
ValidInput == \A i \in DOMAIN lastOp.call.in : lastOp.call.in[i] # BadText

\* C17: for every string s of codepoint length L and every width w >= 0,
\* addStringN(y, x, s, w, Left) hands exactly w glyphs to the framebuffer, for
\* the cells from (y, x) on: the first min(L, w) are the glyphs of s, with the
\* ellipsis in place of the last of them when L > w, and the others are spaces;
\* the cells of the w that are in the grid take these glyphs with the style of
\* the call, and all other cells are unchanged.
C17_LeftWritesWidthCells ==
    (lastOp.call.op = "addStringN" /\ ValidInput /\ lastOp.call.alignment = kLeft
     /\ lastOp.call.width >= 0) =>
        LET s == lastOp.in32[1]
            L == Len(s)
            w == lastOp.call.width
            row == [k \in 1..w |->
                       IF k > Min(L, w) THEN Space
                       ELSE IF L > w /\ k = w THEN Ellipsis
                       ELSE s[k]]
        IN  /\ ~lastOp.threw
            /\ lastOp.str = row
            /\ m_frameBuffer = WithRow(row)

\* C17, witness: a string of three characters was painted Left in a width of
\* two, from column 1 of row 1 of a 3 x 2 grid: "a…" in the last two cells.
C17_Witness ==
    /\ lastOp.call.op = "addStringN"
    /\ lastOp.call.alignment = kLeft
    /\ lastOp.tty = [width |-> 3, height |-> 2]
    /\ lastOp.call.y = 1
    /\ lastOp.call.x = 1
    /\ Len(lastOp.in32[1]) = 3
    /\ lastOp.call.width = 2
    /\ m_frameBuffer[5].glyph = 97
    /\ m_frameBuffer[6].glyph = Ellipsis

\* C18: when the codepoint length L of the string exceeds width >= 1, addStringN
\* hands exactly width glyphs to the framebuffer whatever the alignment mode:
\* without the ClipStart flag the first width - 1 glyphs of the string followed
\* by the ellipsis, with it the ellipsis followed by the last width - 1 glyphs.
C18_ClipKeepsWidth ==
    (lastOp.call.op = "addStringN" /\ ValidInput /\ lastOp.call.width >= 1
     /\ Len(lastOp.in32[1]) > lastOp.call.width) =>
        LET s == lastOp.in32[1]
            L == Len(s)
            w == lastOp.call.width
        IN  /\ ~lastOp.threw
            /\ lastOp.call.alignment \in 0..7
            /\ lastOp.str =
                 IF lastOp.call.alignment >= kClipStart
                 THEN <<Ellipsis>> \o SubSeq(s, L - w + 2, L)
                 ELSE SubSeq(s, 1, w - 1) \o <<Ellipsis>>
            /\ m_frameBuffer = WithRow(lastOp.str)

\* C18, witness: a string of three characters was painted Centered with
\* ClipStart in a width of two: the ellipsis and the last character.
C18_Witness ==
    /\ lastOp.call.op = "addStringN"
    /\ lastOp.call.alignment = kCentered + kClipStart
    /\ Len(lastOp.in32[1]) = 3
    /\ lastOp.call.width = 2
    /\ lastOp.str = <<Ellipsis, 99>>

\* The number of glyphs of the i-th string of addStringsN in the row it built
\* (the three strings have no glyph in common and none twice).
NbShown(i) ==
    Cardinality({k \in DOMAIN lastOp.str :
                    \E j \in DOMAIN lastOp.in32[i] : lastOp.str[k] = lastOp.in32[i][j]})

\* C19: in addStringsN with width >= 1, a string of which the row shows some
\* glyphs but fewer than its codepoint length shows its first glyphs followed by
\* the ellipsis: no string is cut short without an ellipsis.
C19_CutOnlyWithEllipsis ==
    (lastOp.call.op = "addStringsN" /\ ValidInput /\ ~lastOp.threw
     /\ lastOp.call.width >= 1) =>
        \A i \in 1..3 :
            LET s == lastOp.in32[i]
                n == NbShown(i)
            IN  (n >= 1 /\ n < Len(s)) =>
                    \E j \in 1..(Len(lastOp.str) - n) :
                        SubSeq(lastOp.str, j, j + n) = SubSeq(s, 1, n) \o <<Ellipsis>>

\* Where addStringsN puts a middle string of lenMiddle glyphs in a width.
MiddleStart(lenMiddle, width) == (width \div 2) - ((lenMiddle + 1) \div 2)

\* C20: in addStringsN with width >= 1, when the three strings fit in width
\* without overlapping, left from column 0, middle centred, right up to the last
\* column, an empty string taking no room, the row is width glyphs long, shows
\* the three strings whole at these places, and spaces elsewhere; so with empty
\* middle and right strings a left string no longer than width is shown whole.
C20_FittingNotClipped ==
    (lastOp.call.op = "addStringsN" /\ ValidInput /\ lastOp.call.width >= 1) =>
        LET left == lastOp.in32[1]
            middle == lastOp.in32[2]
            right == lastOp.in32[3]
            w == lastOp.call.width
            sm == MiddleStart(Len(middle), w)
            fit == /\ Len(left) + Len(right) <= w
                   /\ Len(middle) > 0 =>
                         (Len(left) <= sm /\ sm + Len(middle) <= w - Len(right))
        IN  fit =>
              /\ ~lastOp.threw
              /\ lastOp.str =
                   [k \in 1..w |->
                       IF k <= Len(left) THEN left[k]
                       ELSE IF k > w - Len(right) THEN right[k - (w - Len(right))]
                       ELSE IF k > sm /\ k <= sm + Len(middle) THEN middle[k - sm]
                       ELSE Space]

(***************************************************************************)
(* Claims about formatted strings and markdown                             *)
(***************************************************************************)
\* The n-th element of a set of integers, in increasing order.
Nth(S, n) == CHOOSE i \in S : Cardinality({j \in S : j < i}) = n - 1

\* The plain codepoints of a formatted string, and the value its sentinels of a
\* kind (given by the mask of the kind) have set before position k, or def.
PlainAt(fstr) == {k \in DOMAIN fstr : fstr[k] <= U32valueMask}
SentinelsBefore(fstr, k, mask) ==
    {i \in 1..(k - 1) : fstr[i] >= mask /\ fstr[i] - mask < mask}
RunningAt(fstr, k, mask, def) ==
    LET S == SentinelsBefore(fstr, k, mask)
    IN  IF S = {} THEN def ELSE fstr[Nth(S, Cardinality(S))] - mask

\* The j-th cell (from 1) of a formatted string painted with room for it: its
\* j-th plain codepoint, or a space behind the last one, in the running style.
FormattedCell(fstr, j) ==
    LET k == IF j <= Cardinality(PlainAt(fstr)) THEN Nth(PlainAt(fstr), j)
             ELSE Len(fstr) + 1
    IN  [glyph |-> IF k <= Len(fstr) THEN fstr[k] ELSE Space,
         effect |-> RunningAt(fstr, k, U32effectMask, 0),
         colorFg |-> RunningAt(fstr, k, U32colorFgMask, m_colorFg),
         colorBg |-> RunningAt(fstr, k, U32colorBgMask, m_colorBg)]

\* The columns of the grid that a painter of the last call with width fills.
FilledColumns ==
    IF ColInGrid
    THEN {c \in 0..(lastOp.tty.width - 1) :
             c >= lastOp.call.x /\ c < lastOp.call.x + lastOp.call.width}
    ELSE {}

\* Every sentinel of the string carries an effect or a palette colour.
PaletteOnly(fstr) ==
    \A k \in DOMAIN fstr :
        fstr[k] > U32valueMask =>
            \E mask \in {U32effectMask, U32colorFgMask, U32colorBgMask} :
                fstr[k] >= mask /\ fstr[k] - mask <= 255 + kCrossedOut + kCrossedOut

\* C21: addFString(y, x, str, width) with (y, x) in the grid, width >= 0 and
\* sentinels of effects and palette colours gives the cells of row y from column
\* x, as many as width and the row allow, the plain codepoints of str in order,
\* each with the effect and the colours of the last sentinels before it (no
\* effect and the default colours where there is none), then spaces in the style
\* running at the end of str; no other cell changes, and a sentinel takes no cell.
C21_FormattedRow ==
    (lastOp.call.op = "addFString" /\ lastOp.call.width >= 0
     /\ PaletteOnly(lastOp.call.in[1])) =>
        m_frameBuffer =
            [k \in DOMAIN lastOp.before |->
                LET cy == (k - 1) \div lastOp.tty.width
                    cx == (k - 1) % lastOp.tty.width
                IN  IF cy = lastOp.call.y /\ cx \in FilledColumns
                    THEN FormattedCell(lastOp.call.in[1], cx - lastOp.call.x + 1)
                    ELSE lastOp.before[k]]

\* C21, witness: [FG(palette 1), 'A', EFFECT(Bold), 'B'] painted with width 3 on
\* row 0 of a 3 x 2 grid, the default colours being 3 and 4.
C21_Witness ==
    /\ lastOp.call.op = "addFString"
    /\ lastOp.call.in[1] = <<U32colorFgMask + 1, 65, U32effectMask + kBold, 66>>
    /\ lastOp.call.width = 3
    /\ lastOp.tty.width = 3
    /\ m_colorBg = 4
    /\ m_frameBuffer[1] = [glyph |-> 65, effect |-> 0, colorFg |-> 1, colorBg |-> 4]
    /\ m_frameBuffer[2] = [glyph |-> 66, effect |-> kBold, colorFg |-> 1, colorBg |-> 4]
    /\ m_frameBuffer[3] = [glyph |-> Space, effect |-> kBold, colorFg |-> 1, colorBg |-> 4]

\* C22: for the colours c, d and the effect e of the application, the sentinels
\* buildColorFg(c), buildColorBg(d) and buildEffect(e) are recognised as
\* sentinels of their kind only, getColor and getEffect give back c, d and e, and
\* the glyph painted by addFString after the three sentinels has exactly
\* foreground c, background d and effect e.
C22_SentinelRoundTrip ==
    LET st == lastOp.call.style
        fstr == lastOp.call.in[1]
    IN  (lastOp.call.op = "addFString"
         /\ fstr = <<buildColorFg(st.colorFg), buildColorBg(st.colorBg),
                     buildEffect(st.effect), 65>>) =>
            /\ \A k \in 1..3 : isU32Format(fstr[k])
            /\ isColorFg(fstr[1]) /\ ~isColorBg(fstr[1]) /\ ~isEffect(fstr[1])
            /\ isColorBg(fstr[2]) /\ ~isColorFg(fstr[2]) /\ ~isEffect(fstr[2])
            /\ isEffect(fstr[3]) /\ ~isColorFg(fstr[3]) /\ ~isColorBg(fstr[3])
            /\ getColor(fstr[1]) = st.colorFg
            /\ getColor(fstr[2]) = st.colorBg
            /\ getEffect(fstr[3]) = st.effect
            /\ m_frameBuffer[1] = [glyph |-> 65, effect |-> st.effect,
                                   colorFg |-> st.colorFg, colorBg |-> st.colorBg]

\* The text of the last call is ASCII: its bytes are its codepoints.
AsciiText == \A k \in DOMAIN lastOp.call.in[1] : lastOp.call.in[1][k] < 128

\* The li-th line (from 0) of a text: what is between two newlines.
NewlinesOf(str) == {k \in DOMAIN str : str[k] = 10}
LineOf(str, li) ==
    LET first == IF li = 0 THEN 1 ELSE Nth(NewlinesOf(str), li) + 1
        last == IF li < Cardinality(NewlinesOf(str))
                THEN Nth(NewlinesOf(str), li + 1) - 1 ELSE Len(str)
    IN  SubSeq(str, first, last)

\* The delimiter pairs of a line: in a run of one delimiter character, the
\* first and second, the third and fourth, and so on.
DelimBit(c) ==
    IF c = 42 THEN kBold ELSE IF c = 47 THEN kItalic
    ELSE IF c = 95 THEN kUnderline ELSE IF c = 45 THEN kCrossedOut ELSE 0
RunStart(line, i) ==
    CHOOSE s \in 1..i : /\ \A j \in s..i : line[j] = line[i]
                        /\ (s = 1 \/ line[s - 1] # line[i])
PairStart(line, i) ==
    /\ DelimBit(line[i]) # 0
    /\ i < Len(line)
    /\ line[i + 1] = line[i]
    /\ (i - RunStart(line, i)) % 2 = 0
NbPairs(line, i, c) ==
    Cardinality({j \in 1..i : PairStart(line, j) /\ line[j] = c})
EffectAfter(line, i) ==
    DelimBit(42) * (NbPairs(line, i, 42) % 2) + DelimBit(47) * (NbPairs(line, i, 47) % 2)
    + DelimBit(95) * (NbPairs(line, i, 95) % 2) + DelimBit(45) * (NbPairs(line, i, 45) % 2)

\* A line with each pair replaced by the sentinel of the effects toggled an odd
\* number of times so far.
Expanded(line) ==
    LET tokens == {i \in DOMAIN line : PairStart(line, i) \/ i = 1
                                       \/ ~PairStart(line, i - 1)}
    IN  [n \in 1..Cardinality(tokens) |->
            LET i == Nth(tokens, n)
            IN  IF PairStart(line, i) THEN U32effectMask + EffectAfter(line, i)
                ELSE line[i]]

\* C23: addMarkdown(y, x, text, width) with an ASCII text and width >= 0 paints
\* the k-th line of the text (k from 0, a newline that ends the text opening no
\* line) on row y + k as addFString paints the expansion of that line alone:
\* from no effect and the default colours, from column x, with the width; rows
\* that hold no line, lines whose row is outside the grid, and all lines when x
\* is outside the grid, change nothing.
C23_MarkdownLines ==
    (lastOp.call.op = "addMarkdown" /\ AsciiText /\ lastOp.call.width >= 0) =>
        /\ ~lastOp.threw
        /\ m_frameBuffer =
            [k \in DOMAIN lastOp.before |->
                LET cy == (k - 1) \div lastOp.tty.width
                    cx == (k - 1) % lastOp.tty.width
                    li == cy - lastOp.call.y
                IN  IF li >= 0 /\ li < NbLines(lastOp.call.in[1]) /\ cx \in FilledColumns
                    THEN FormattedCell(Expanded(LineOf(lastOp.call.in[1], li)),
                                       cx - lastOp.call.x + 1)
                    ELSE lastOp.before[k]]

\* C23, witness: "**a" and "b" painted on rows 0 and 1 of a 3 x 2 grid: a bold
\* 'a', and a 'b' with no effect.
C23_Witness ==
    /\ lastOp.call.op = "addMarkdown"
    /\ lastOp.call.in[1] = <<42, 42, 97, 10, 98>>
    /\ lastOp.call.y = 0
    /\ lastOp.call.x = 0
    /\ lastOp.tty.width = 3
    /\ m_frameBuffer[1].glyph = 97
    /\ m_frameBuffer[1].effect = kBold
    /\ m_frameBuffer[4].glyph = 98
    /\ m_frameBuffer[4].effect = 0

\* C24: for every line of an ASCII text given to addMarkdown, the output of
\* convertMarkdown is the line with each delimiter pair replaced by one sentinel
\* that carries the XOR of the effect bits of the pairs met so far; when each of
\* the pairs **, //, __, -- occurs an even number of times in the line and there
\* is one, the last sentinel carries no effect; and a line with no two adjacent
\* identical delimiter characters is returned unchanged.
C24_MarkdownXor ==
    (lastOp.call.op = "addMarkdown" /\ AsciiText) =>
        /\ Len(lastOp.in32) = NbLines(lastOp.call.in[1])
        /\ \A n \in DOMAIN lastOp.in32 :
            LET line == LineOf(lastOp.call.in[1], n - 1)
                out == lastOp.in32[n]
                sentinels == {k \in DOMAIN out : out[k] > U32valueMask}
            IN  /\ out = Expanded(line)
                /\ (sentinels # {}
                    /\ \A c \in {42, 47, 95, 45} : NbPairs(line, Len(line), c) % 2 = 0) =>
                        out[Nth(sentinels, Cardinality(sentinels))] = U32effectMask
                /\ (\A i \in 1..(Len(line) - 1) :
                        ~(DelimBit(line[i]) # 0 /\ line[i + 1] = line[i])) => out = line

\* C24, witness: "__a--b__c--" was converted: underline, then underline and
\* crossed out, then crossed out, then no effect.
C24_Witness ==
    /\ lastOp.call.op = "addMarkdown"
    /\ lastOp.call.in[1] = <<95, 95, 97, 45, 45, 98, 95, 95, 99, 45, 45>>
    /\ lastOp.in32 = << <<U32effectMask + kUnderline, 97,
                          U32effectMask + kUnderline + kCrossedOut, 98,
                          U32effectMask + kCrossedOut, 99, U32effectMask>> >>

(***************************************************************************)
(* Claims about the bytes sent to the tty                                  *)
(***************************************************************************)
\* A terminal reading bytes: its effects (one bit per SGR parameter 1..9), its
\* colours, its cursor and the glyphs it has shown, each with the position and
\* the attributes it was shown with.
TermDefault == <<"default", 0, 0, 0>>
TermPalette(n) == <<"palette", n, 0, 0>>
TermRgb(r, g, b) == <<"rgb", r, g, b>>
TermStart ==
    [effect |-> 0, fg |-> TermDefault, bg |-> TermDefault, row |-> 0, col |-> 0,
     shown |-> <<>>]

\* The colour of a cell as Color reads it.
TermColor(color) ==
    IF Color_isPalette(color) THEN TermPalette(Color_paletteIndex(color))
    ELSE TermRgb(Color_red(color), Color_green(color), Color_blue(color))

\* The numbers of the parameter bytes of a control sequence, split at ';' (an
\* empty parameter is 0, a '?' is skipped).
RECURSIVE CsiParams(_, _, _)
CsiParams(bytes, i, cur) ==
    IF i > Len(bytes) THEN <<cur>>
    ELSE IF bytes[i] = 59 THEN <<cur>> \o CsiParams(bytes, i + 1, 0)
    ELSE IF bytes[i] \in 48..57
         THEN CsiParams(bytes, i + 1, cur * 10 + (bytes[i] - 48))
    ELSE CsiParams(bytes, i + 1, cur)

ParamAt(nums, k) == IF k <= Len(nums) THEN nums[k] ELSE 0

\* Select Graphic Rendition with the parameters nums, from parameter k on.
RECURSIVE TermSgr(_, _, _)
TermSgr(nums, k, st) ==
    IF k > Len(nums) THEN st
    ELSE LET n == nums[k]
         IN  IF n = 0
             THEN TermSgr(nums, k + 1,
                          [st EXCEPT !.effect = 0, !.fg = TermDefault,
                                     !.bg = TermDefault])
             ELSE IF n \in 1..9
             THEN TermSgr(nums, k + 1,
                          [st EXCEPT !.effect =
                              IF (st.effect \div (2 ^ n)) % 2 = 1 THEN st.effect
                              ELSE st.effect + 2 ^ n])
             ELSE IF n \in 30..37
             THEN TermSgr(nums, k + 1, [st EXCEPT !.fg = TermPalette(n - 30)])
             ELSE IF n \in 40..47
             THEN TermSgr(nums, k + 1, [st EXCEPT !.bg = TermPalette(n - 40)])
             ELSE IF n \in {38, 48} /\ ParamAt(nums, k + 1) = 5
             THEN TermSgr(nums, k + 3,
                          IF n = 38
                          THEN [st EXCEPT !.fg = TermPalette(ParamAt(nums, k + 2))]
                          ELSE [st EXCEPT !.bg = TermPalette(ParamAt(nums, k + 2))])
             ELSE IF n \in {38, 48} /\ ParamAt(nums, k + 1) = 2
             THEN LET c == TermRgb(ParamAt(nums, k + 2), ParamAt(nums, k + 3),
                                   ParamAt(nums, k + 4))
                  IN  TermSgr(nums, k + 5,
                              IF n = 38 THEN [st EXCEPT !.fg = c]
                              ELSE [st EXCEPT !.bg = c])
             ELSE TermSgr(nums, k + 1, st)

\* The index of the final byte of the control sequence whose parameters start
\* at i, or 0 if the bytes end before it.
RECURSIVE CsiFinal(_, _)
CsiFinal(bytes, i) ==
    IF i > Len(bytes) THEN 0
    ELSE IF bytes[i] \in 64..126 THEN i
    ELSE CsiFinal(bytes, i + 1)

\* The terminal after the control sequence with the final byte final.
TermCsi(st, final, nums) ==
    IF final = 109 THEN TermSgr(nums, 1, st)
    ELSE IF final = 72
    THEN [st EXCEPT !.row = Max(ParamAt(nums, 1), 1) - 1,
                    !.col = Max(ParamAt(nums, 2), 1) - 1]
    ELSE IF final = 74 /\ ParamAt(nums, 1) = 2 THEN [st EXCEPT !.shown = <<>>]
    ELSE st

\* The number of bytes of the UTF-8 sequence that starts with b0, and the
\* codepoint of the sequence at i.
GlyphLen(b0) == IF b0 < 192 THEN 1 ELSE IF b0 < 224 THEN 2 ELSE 3
GlyphAt(bytes, i) ==
    LET n == GlyphLen(bytes[i])
    IN  IF n = 1 THEN bytes[i]
        ELSE IF n = 2 THEN (bytes[i] - 192) * 64 + (bytes[i + 1] - 128)
        ELSE (bytes[i] - 224) * 4096 + (bytes[i + 1] - 128) * 64 + (bytes[i + 2] - 128)

\* The terminal st after it has read the bytes from index i on. (The test of
\* st.col changes nothing, the cursor is never left of the screen: it makes
\* TLC compute st at every step, not as one deep expression at the end.)
RECURSIVE TermRead(_, _, _)
TermRead(bytes, i, st) ==
    IF i > Len(bytes) \/ st.col < 0 THEN st
    ELSE IF bytes[i] = ESC
    THEN IF i + 1 <= Len(bytes) /\ bytes[i + 1] = 91
         THEN LET final == CsiFinal(bytes, i + 2)
              IN  IF final = 0 THEN st
                  ELSE TermRead(bytes, final + 1,
                                TermCsi(st, bytes[final],
                                        CsiParams(SubSeq(bytes, i + 2, final - 1),
                                                  1, 0)))
         ELSE TermRead(bytes, i + 2, st)
    ELSE IF i + GlyphLen(bytes[i]) - 1 > Len(bytes) THEN st
    ELSE TermRead(bytes, i + GlyphLen(bytes[i]),
                  [st EXCEPT !.col = st.col + 1,
                             !.shown = Append(st.shown,
                                 [row |-> st.row, col |-> st.col,
                                  glyph |-> GlyphAt(bytes, i),
                                  effect |-> st.effect, fg |-> st.fg,
                                  bg |-> st.bg])])

\* What the terminal shows of cell k of the framebuffer fb of width columns.
ShownCell(fb, width, k) ==
    [row |-> (k - 1) \div width, col |-> (k - 1) % width, glyph |-> fb[k].glyph,
     effect |-> fb[k].effect, fg |-> TermColor(fb[k].colorFg),
     bg |-> TermColor(fb[k].colorBg)]

\* publish() or the constructor has returned and nothing was painted since.
Published ==
    /\ objPc = "live"
    /\ lastOp.call.op \in {"publish", "construct"}
    /\ txResult = "written"

\* C25: when publish has returned, a terminal that reads the bytes the tty
\* received has shown exactly the glyphs of the framebuffer, in row-major
\* order, each at the row and the column of its cell and with the effects, the
\* foreground and the background of its cell.
C25_PublishShowsFrame ==
    Published =>
        TermRead(ttyOut, 1, TermStart).shown =
            [k \in 1..Len(m_frameBuffer) |-> ShownCell(m_frameBuffer, m_tty.width, k)]

\* An application publish has returned for a frame that holds an RGB cell
\* followed by a cell of another effect, and a cell of the high palette.
C25_Witness ==
    /\ Published
    /\ lastOp.call.op = "publish"
    /\ m_tty.width = 3
    /\ \E k \in 1..(Len(m_frameBuffer) - 1) :
           /\ ~Color_isPalette(m_frameBuffer[k].colorFg)
           /\ m_frameBuffer[k + 1].effect # m_frameBuffer[k].effect
    /\ \E k \in 1..Len(m_frameBuffer) :
           Color_paletteIndex(m_frameBuffer[k].colorFg) = 200

\* The bytes of ttyOut are the first txSent bytes of the buffer while txFlush
\* runs, and the whole buffer once it has returned, the buffer then being empty.
FlushInOrder ==
    /\ Flushing => /\ m_txBuffer = txFlushed
                   /\ ttyOut = SubSeq(m_txBuffer, 1, txSent)
    /\ (objPc \in {"live", "gone"} /\ txResult = "written") =>
           /\ ttyOut = txFlushed
           /\ m_txBuffer = <<>>

\* A write that fails with EINTR or EAGAIN leaves txFlush where it was, and
\* txFlush ends with an exception only on a write that fails otherwise.
FlushFailure ==
    /\ txResult' \in {"EINTR", "EAGAIN"} =>
           /\ Flushing
           /\ UNCHANGED <<objPc, m_txBuffer, txSent, ttyOut>>
    /\ (Flushing /\ objPc' \in {"failed", "publishThrown", "terminated"}) =>
           txResult' = "error"
    /\ (Flushing /\ ~Flushing') =>
           \/ txResult' = "error"
           \/ txResult' = "written" /\ ttyOut' = txFlushed

\* C26: txFlush hands every byte of the write buffer to the tty once and in
\* order, whatever partial writes, EINTR and EAGAIN occur, and leaves the buffer
\* empty; it ends with an exception only on another write error; and when the
\* writes that can take bytes do so in the end, it returns or throws.
C26_FlushWritesAll ==
    /\ []FlushInOrder
    /\ [][FlushFailure]_vars
    /\ (Flushing ~> ~Flushing)

\* A txFlush has returned after as many partial writes as the model allows.
C26_Witness ==
    /\ objPc = "live"
    /\ txResult = "written"
    /\ nbPartial = MaxPartial
    /\ ttyOut = txFlushed
    /\ Len(ttyOut) > MaxPartial

\* q ends with p.
IsSuffix(p, q) ==
    Len(p) <= Len(q) /\ SubSeq(q, Len(q) - Len(p) + 1, Len(q)) = p

\* C27: the first bytes the tty receives from the object are smcup, smkx, civis
\* and clear in that order, and the first frame follows them; the termios
\* settings are restored after a destruction only when the tty has received
\* clear, cnorm, rmkx and rmcup in that order as the last bytes of a completed
\* txFlush.
C27_SetupAndTeardown ==
    /\ IsPrefix(ttyStart, smcup \o smkx \o civis \o clear)
    /\ objPc = "ctorFlush" =>
           /\ IsPrefix(ttyStart, ttyOut) \/ IsPrefix(ttyOut, ttyStart)
           /\ IsPrefix(ttyOut, (smcup \o smkx \o civis \o clear)
                               \o publish(<<>>, m_frameBuffer, m_tty))
    /\ objPc \in {"live", "publishFlush", "publishThrown", "dtorFlush", "gone",
                  "terminated"} =>
           ttyStart = smcup \o smkx \o civis \o clear
    /\ objPc \in {"dtorFlush", "terminated"} => termios = "raw"
    /\ objPc = "gone" =>
           /\ termios = "orig"
           /\ IsSuffix(clear \o cnorm \o rmkx \o rmcup, ttyOut)
           /\ ttyOut = txFlushed
           /\ m_txBuffer = <<>>

\* The object was destroyed, the txFlush of its destructor took several writes.
C27_Witness ==
    /\ objPc = "gone"
    /\ termios = "orig"
    /\ nbPartial >= 1
    /\ nbPublish >= 1

(***************************************************************************)
(* Claims about modified keys and control characters                       *)
(***************************************************************************)
ModifierMask(modifier) ==
    IF modifier = 1 THEN altMask ELSE IF modifier = 2 THEN shiftMask ELSE ctrlMask
ModifiedKey(key) == IF key = 2 THEN Key.kInsert ELSE Key.kDelete

\* C28: when an iteration of the handler, with no incomplete UTF-8 sequence
\* pending, has ESC [ key ; modifier ~ at the head of the buffer, for key 2
\* (Insert) or 3 (Delete) and modifier 1 (Alt), 2 (Shift) or 5 (Ctrl), it
\* delivers one event, the key with the modifier, decoded from the six bytes,
\* and leaves the bytes that follow in the buffer.
C28_ModifiedInsertDelete ==
    \A key \in {2, 3}, modifier \in {1, 2, 5} :
        (/\ lastIter.kind # "none"
         /\ lastIter.mbs = <<>>
         /\ IsPrefix(ModKeySeq(key, modifier), lastIter.filled)) =>
            /\ lastIter.kind = "event"
            /\ Len(events) = lastIter.nbEvents + 1
            /\ LastEvent.code = ModifierMask(modifier) + ModifiedKey(key)
            /\ LastEvent.src = lastIter.first..(lastIter.first + 5)
            /\ Bytes(m_rxBuffer) = SubSeq(lastIter.filled, 7, Len(lastIter.filled))

\* Event::kTab and Event::kEnter
kTab == ctrlMask + 73
kEnter == ctrlMask + 77

\* The event of the codepoint c, not ESC.
CodepointEvent(c) == IF c \in 1..26 THEN ctrlMask + (64 + c) ELSE c

\* C29: when an iteration of the handler, with no incomplete UTF-8 sequence
\* pending, has the UTF-8 bytes of a codepoint c at the head of the buffer, it
\* delivers one event: for c in 1..26 Ctrl | ('A' + c - 1), which is Tab for 9
\* and Enter for 13, and for c above 27 the codepoint itself, below every
\* modifier bit.
C29_ControlAndPlainCodepoints ==
    /\ CodepointEvent(9) = kTab
    /\ CodepointEvent(13) = kEnter
    /\ \A c \in Codepoints :
           (/\ lastIter.kind # "none"
            /\ lastIter.mbs = <<>>
            /\ IsPrefix(Utf8Of(c), lastIter.filled)) =>
               /\ lastIter.kind = "event"
               /\ Len(events) = lastIter.nbEvents + 1
               /\ LastEvent.code = CodepointEvent(c)
               /\ c > 27 => LastEvent.code = c /\ LastEvent.code < specialMask
               /\ Bytes(m_rxBuffer) =
                     SubSeq(lastIter.filled, Len(Utf8Of(c)) + 1, Len(lastIter.filled))

\* Enter then Tab were delivered after a character of four bytes.
C29_Witness ==
    /\ Len(events) = 3
    /\ EventCodes(events) = <<1114111, kEnter, kTab>>
    /\ lastIter.kind = "event"
    /\ lastIter.filled = <<9>>

(***************************************************************************)
(* Claims about Poll::waitAndProcessEvents                                 *)
(***************************************************************************)
\* C30: while waitAndProcessEvents processes a batch in which handlers remove
\* monitored descriptors, it does not end with an exception, every handler it
\* has invoked was that of a descriptor monitored at the time of the call, and
\* the handler that runs still has its entry in the map.
C30_RemovalDuringDispatch ==
    /\ pollPc # "out_of_range"
    /\ pollPc # "crashed"
    /\ pollPc = "handler" => pollEvents[pollIndex] \in DOMAIN m_monitoredFds
    /\ \A i \in DOMAIN pollCalls : pollCalls[i] = pollEvents[i]

(***************************************************************************)
(* The framebuffer and the recorded size                                   *)
(***************************************************************************)

\* C31: from the construction on, whatever resets, painter calls, publishes,
\* changes of the default colours and resizes of the window have happened, the
\* framebuffer has width * height cells for the size the terminal object
\* recorded, so that the index y * width + x of every position the bounds test
\* of a painter accepts is the index of a cell.
C31_FrameBufferMatchesSize ==
    objPc # "none" =>
        /\ Len(m_frameBuffer) = m_tty.width * m_tty.height
        /\ \A y \in 0 - 1 .. 3, x \in 0 - 1 .. 3 :
               InGrid(m_tty, y, x) => (y * m_tty.width + x + 1) \in DOMAIN m_frameBuffer

\* A reset of a published object that found the window with another size.
C31_Witness ==
    /\ lastOp.call.op = "reset"
    /\ lastOp.tty # m_tty
    /\ txFlushed # <<>>
    /\ termSize = m_tty

(***************************************************************************)
(* The results of identify_esc_seq                                         *)
(***************************************************************************)

\* Byte strings that neither start with a recognised sequence nor are a prefix
\* of one.
UnmatchedStrings ==
    {q \in {<<120>>, <<79, 120>>, <<91, 49, 120>>, <<27>>} :
        ~IsProperPrefixOfSeq(q) /\ ~HasSeqPrefix(q)}

\* C32: when the handler passes to identify_esc_seq, after an ESC, a proper
\* prefix of a recognised sequence (the empty one included), the function
\* consumes nothing and its result differs from the result it gives for every
\* byte string that is not a prefix of any recognised sequence.
C32_PrefixNeedsMore ==
    (/\ lastIter.kind # "none"
     /\ lastIter.mbs = <<>>
     /\ lastIter.filled # <<>>
     /\ lastIter.filled[1] = 27
     /\ IsProperPrefixOfSeq(Tail(lastIter.filled))) =>
        /\ identify_esc_seq(Tail(lastIter.filled)).consumed = 0
        /\ \A q \in UnmatchedStrings :
               identify_esc_seq(Tail(lastIter.filled)) # identify_esc_seq(q)

(***************************************************************************)
(* The sequences of a publish                                              *)
(***************************************************************************)

\* The bytes from index i on cut into control sequences (the final byte and the
\* numbers of the parameters) and glyphs (final 0, the codepoint).
RECURSIVE OutTokens(_, _)
OutTokens(bytes, i) ==
    IF i > Len(bytes) THEN <<>>
    ELSE IF bytes[i] = ESC /\ i + 1 <= Len(bytes) /\ bytes[i + 1] = 91
    THEN LET final == CsiFinal(bytes, i + 2)
         IN  IF final = 0 THEN <<>>
             ELSE <<[final |-> bytes[final],
                     params |-> CsiParams(SubSeq(bytes, i + 2, final - 1), 1, 0)]>>
                  \o OutTokens(bytes, final + 1)
    ELSE IF i + GlyphLen(bytes[i]) - 1 > Len(bytes) THEN <<>>
    ELSE <<[final |-> 0, params |-> <<GlyphAt(bytes, i)>>]>>
         \o OutTokens(bytes, i + GlyphLen(bytes[i]))

\* The last txFlush was the one of a publish (of the application or of the
\* constructor), and what publish appended after it cleared the screen.
PublishFlushed ==
    /\ lastOp.call.op \in {"publish", "construct"}
    /\ txFlushed # <<>>
PublishHead ==
    IF lastOp.call.op = "construct" THEN smcup \o smkx \o civis \o clear \o clear
    ELSE clear
FrameTokens == OutTokens(txFlushed, Len(PublishHead) + 1)

\* The SGR parameters of a set of effects (ascending bits), of a colour, and of
\* a full update for a cell.
RECURSIVE EffectParams(_, _)
EffectParams(effect, bit) ==
    IF bit > 9 THEN <<>>
    ELSE (IF (effect \div (2 ^ bit)) % 2 = 1 THEN <<bit>> ELSE <<>>)
         \o EffectParams(effect, bit + 1)
ColorParams(color, isFg) ==
    LET base == IF isFg THEN 30 ELSE 40
    IN  IF Color_isPalette(color)
        THEN IF Color_paletteIndex(color) < 8
             THEN <<base + Color_paletteIndex(color)>>
             ELSE <<base + 8, 5, Color_paletteIndex(color)>>
        ELSE <<base + 8, 2, Color_red(color), Color_green(color), Color_blue(color)>>
FullParams(cell) ==
    <<0>> \o EffectParams(cell.effect, 1) \o ColorParams(cell.colorFg, TRUE)
          \o ColorParams(cell.colorBg, FALSE)

\* C33: in every publish of a framebuffer that has cells, the first thing sent
\* after the screen is cleared is one SGR sequence that holds the reset
\* parameter 0, then the effects of the first cell, its foreground colour and
\* its background colour, whatever the style of that cell.
C33_FirstSgrIsFull ==
    (PublishFlushed /\ m_frameBuffer # <<>>) =>
        /\ IsPrefix(PublishHead, txFlushed)
        /\ FrameTokens # <<>>
        /\ FrameTokens[1] = [final |-> 109, params |-> FullParams(m_frameBuffer[1])]

\* The indexes of the glyphs in the tokens of a publish, and the SGR sequences
\* sent between glyph k - 1 and glyph k.
GlyphPos(toks) ==
    LET IsGlyph(i) == toks[i].final = 0
    IN  SelectSeq([i \in 1..Len(toks) |-> i], IsGlyph)
SgrBefore(toks, pos, k) ==
    LET IsSgr(t) == t.final = 109
    IN  SelectSeq(SubSeq(toks, pos[k - 1] + 1, pos[k] - 1), IsSgr)

\* C34: in a publish, for each cell after the first: when its effect, foreground
\* and background are those of the cell before, no SGR sequence is sent between
\* the two glyphs; when the effect differs, one sequence is sent with 0, the
\* set effect bits in ascending order and both colours; when only colours
\* differ, one sequence is sent with the colour or colours that changed and
\* without 0.
C34_SgrBetweenCells ==
    PublishFlushed =>
        LET toks == FrameTokens
            pos == GlyphPos(toks)
            fb == m_frameBuffer
        IN  /\ Len(pos) = Len(fb)
            /\ \A k \in 2..Len(fb) :
                  LET sgr == SgrBefore(toks, pos, k)
                      newFg == fb[k].colorFg # fb[k - 1].colorFg
                      newBg == fb[k].colorBg # fb[k - 1].colorBg
                  IN  IF fb[k].effect # fb[k - 1].effect
                      THEN sgr = <<[final |-> 109, params |-> FullParams(fb[k])]>>
                      ELSE IF newFg \/ newBg
                      THEN sgr = <<[final |-> 109,
                                    params |->
                                        (IF newFg THEN ColorParams(fb[k].colorFg, TRUE)
                                         ELSE <<>>)
                                        \o (IF newBg
                                            THEN ColorParams(fb[k].colorBg, FALSE)
                                            ELSE <<>>)]>>
                      ELSE sgr = <<>>

\* A published frame with the three cases: a cell styled as the one before it,
\* a cell with another effect, and a cell with the same effect and one other
\* colour.
C34_Witness ==
    /\ Published
    /\ lastOp.call.op = "publish"
    /\ \E k \in 2..Len(m_frameBuffer) :
          /\ m_frameBuffer[k].effect = m_frameBuffer[k - 1].effect
          /\ m_frameBuffer[k].colorFg = m_frameBuffer[k - 1].colorFg
          /\ m_frameBuffer[k].colorBg = m_frameBuffer[k - 1].colorBg
    /\ \E k \in 2..Len(m_frameBuffer) :
          /\ m_frameBuffer[k].effect # m_frameBuffer[k - 1].effect
          /\ m_frameBuffer[k].effect # 0
    /\ \E k \in 2..Len(m_frameBuffer) :
          /\ m_frameBuffer[k].effect = m_frameBuffer[k - 1].effect
          /\ m_frameBuffer[k].colorFg # m_frameBuffer[k - 1].colorFg
          /\ m_frameBuffer[k].colorBg = m_frameBuffer[k - 1].colorBg

\* C35: a publish of a framebuffer of w >= 1 columns and h rows sends, right
\* after the last glyph of each row r (from 0), the cursor position sequence
\* ESC [ r+2 H, and no other one after the screen is cleared: h sequences,
\* each after w glyphs; the last thing it sends is ESC [ 0 m, and the write
\* buffer is empty when it has returned.
C35_CursorAfterEachRow ==
    (PublishFlushed /\ m_tty.width >= 1) =>
        LET toks == FrameTokens
            pos == GlyphPos(toks)
            IsCup(t) == t.final = 72
        IN  /\ Len(pos) = m_tty.width * m_tty.height
            /\ Len(SelectSeq(toks, IsCup)) = m_tty.height
            /\ \A r \in 0..(m_tty.height - 1) :
                  /\ pos[(r + 1) * m_tty.width] < Len(toks)
                  /\ toks[pos[(r + 1) * m_tty.width] + 1] =
                        [final |-> 72, params |-> <<r + 2>>]
            /\ toks # <<>>
            /\ toks[Len(toks)] = [final |-> 109, params |-> <<0>>]
            /\ SubSeq(txFlushed, Len(txFlushed) - 3, Len(txFlushed)) = <<ESC, 91, 48, 109>>
            /\ Published => m_txBuffer = <<>>

\* A publish of the application has returned for a frame of two rows that
\* holds a painted glyph.
C35_Witness ==
    /\ Published
    /\ lastOp.call.op = "publish"
    /\ m_tty.height = 2
    /\ m_txBuffer = <<>>
    /\ \E k \in 1..Len(m_frameBuffer) : m_frameBuffer[k].glyph # Space

(***************************************************************************)
(* The place of the middle string of addStringsN                           *)
(***************************************************************************)

\* The last call was addStringsN with a middle string that has glyphs, and no
\* pass of the overlap resolution changed the layout.
MiddleNotAdjusted ==
    /\ lastOp.call.op = "addStringsN"
    /\ ValidInput
    /\ Len(lastOp.in32) = 3
    /\ Len(lastOp.in32[2]) > 0
    /\ ~layoutStringsN(Len(lastOp.in32[1]), Len(lastOp.in32[2]), Len(lastOp.in32[3]),
                       lastOp.call.width).adjusted

\* The middle string starts at offset off of the row built by the last call:
\* its glyphs are there, after a space, and the cell of its first glyph, when
\* in the grid, shows that glyph.
MiddleStartsAt(off) ==
    LET middle == lastOp.in32[2]
    IN  /\ ~lastOp.threw
        /\ off >= 1
        /\ off + Len(middle) <= Len(lastOp.str)
        /\ SubSeq(lastOp.str, off + 1, off + Len(middle)) = middle
        /\ lastOp.str[off] = Space
        /\ InGrid(lastOp.tty, lastOp.call.y, lastOp.call.x + off) =>
              m_frameBuffer[lastOp.call.y * lastOp.tty.width + lastOp.call.x + off + 1].glyph
                  = middle[1]

\* C36: in addStringsN, a non-empty middle string of M codepoints that
\* undergoes no overlap adjustment starts at column offset
\* floor(width / 2) - ceil((M + 1) / 2) from x, for even M as for odd M.
C36_MiddleStartCeil ==
    MiddleNotAdjusted =>
        LET M == Len(lastOp.in32[2])
        IN  MiddleStartsAt((lastOp.call.width \div 2) - ((M + 2) \div 2))

\* C36, amended: the offset is floor(width / 2) - floor((M + 1) / 2), which
\* is floor(width / 2) - ceil(M / 2): one column to the right of the claimed
\* one when M is even.
C36_MiddleStartFloor ==
    MiddleNotAdjusted =>
        LET M == Len(lastOp.in32[2])
        IN  MiddleStartsAt((lastOp.call.width \div 2) - ((M + 1) \div 2))

\* A middle string of two glyphs, not adjusted, in a width of 6 from column 0:
\* its first glyph is in the third cell of the row.
C36_Witness ==
    /\ MiddleNotAdjusted
    /\ Len(lastOp.in32[2]) = 2
    /\ lastOp.call.width = 6
    /\ lastOp.call.y = 0
    /\ lastOp.call.x = 0
    /\ m_tty.width = 3
    /\ m_frameBuffer[3].glyph = lastOp.in32[2][1]

\* C37: for every width >= 0 and every three strings, addStringsN builds a row
\* of exactly width glyphs, so that every cell outside the columns x to
\* x + width - 1 of row y is unchanged.
C37_RowHasWidthGlyphs ==
    (lastOp.call.op = "addStringsN" /\ ValidInput /\ lastOp.call.width >= 0) =>
        /\ ~lastOp.threw
        /\ Len(lastOp.str) = lastOp.call.width
        /\ \A k \in 1..Len(m_frameBuffer) :
              LET row == (k - 1) \div lastOp.tty.width
                  col == (k - 1) % lastOp.tty.width
              IN  (row # lastOp.call.y \/ col < lastOp.call.x
                   \/ col >= lastOp.call.x + lastOp.call.width) =>
                      m_frameBuffer[k] = lastOp.before[k]

(***************************************************************************)
(* The shape of the output of convertMarkdown                              *)
(***************************************************************************)

\* C38: for every line of an ASCII text given to addMarkdown, convertMarkdown
\* puts exactly one effect sentinel in the place of each pair of adjacent
\* identical delimiter characters, pairs being taken from left to right, and
\* copies every other codepoint unchanged and in order, the third character of
\* a run of three delimiters as a plain character: the output is shorter than
\* the line by the number of pairs.
C38_PairsBecomeSentinels ==
    (lastOp.call.op = "addMarkdown" /\ AsciiText) =>
        \A n \in DOMAIN lastOp.in32 :
            LET line == LineOf(lastOp.call.in[1], n - 1)
                out == lastOp.in32[n]
                pairs == {i \in DOMAIN line : PairStart(line, i)}
                others == {i \in DOMAIN line :
                              ~PairStart(line, i) /\ (i = 1 \/ ~PairStart(line, i - 1))}
                PairsBefore(i) == Cardinality({j \in pairs : j < i})
                IsSentinel(v) == v > U32valueMask
                IsPlain(v) == v <= U32valueMask
            IN  /\ Len(out) = Len(line) - Cardinality(pairs)
                /\ Len(SelectSeq(out, IsSentinel)) = Cardinality(pairs)
                /\ SelectSeq(out, IsPlain) =
                      [k \in 1..Cardinality(others) |-> line[Nth(others, k)]]
                /\ \A i \in pairs : IsSentinel(out[i - PairsBefore(i)])
                /\ \A i \in others : out[i - PairsBefore(i)] = line[i]
                /\ \A i \in 1..(Len(line) - 2) :
                      (/\ DelimBit(line[i]) # 0
                       /\ RunStart(line, i) = i
                       /\ line[i + 1] = line[i]
                       /\ line[i + 2] = line[i]
                       /\ (i + 3 > Len(line) \/ line[i + 3] # line[i])) =>
                          /\ IsSentinel(out[i - PairsBefore(i)])
                          /\ out[i - PairsBefore(i) + 1] = line[i]

\* "---a____b" was converted: one sentinel and a plain '-', then 'a', two
\* sentinels and 'b'; six codepoints for nine.
C38_Witness ==
    /\ lastOp.call.op = "addMarkdown"
    /\ lastOp.call.in[1] = <<45, 45, 45, 97, 95, 95, 95, 95, 98>>
    /\ lastOp.in32 = << <<U32effectMask + kCrossedOut, 45, 97,
                          U32effectMask + kCrossedOut + kUnderline,
                          U32effectMask + kCrossedOut, 98>> >>

(***************************************************************************)
(* The next codepoint of the receive buffer                                *)
(***************************************************************************)

\* Codepoints of one, two and three bytes that the streams of SpecInput hold.
StreamCodepoints == {1, 65, 79, 91, 120, 233, 8364}

\* C39: in an iteration of the handler, rxC32 on an empty buffer returns no
\* character and consumes nothing; with the bytes of a codepoint at the head of
\* the buffer it returns the codepoint and consumes exactly these bytes, also
\* when the first bytes of the codepoint were in the buffer, incomplete, at an
\* earlier call; with only an incomplete multi-byte sequence in the buffer it
\* returns no character and consumes nothing; with an invalid byte at the head
\* it returns no character and consumes exactly one byte.
C39_NextCodepoint ==
    lastIter.kind # "none" =>
        /\ lastIter.filled = <<>> =>
              /\ lastIter.kind = "break"
              /\ m_rxBuffer = <<>>
        /\ \A c \in StreamCodepoints :
              IsPrefix(Utf8Of(c), lastIter.filled) =>
                  /\ lastIter.kind = "event"
                  /\ LastEvent.code = CodepointEvent(c)
                  /\ Bytes(m_rxBuffer) =
                        SubSeq(lastIter.filled, Len(Utf8Of(c)) + 1, Len(lastIter.filled))
        /\ (/\ lastIter.filled # <<>>
            /\ \E c \in StreamCodepoints :
                  /\ Len(lastIter.filled) < Len(Utf8Of(c))
                  /\ IsPrefix(lastIter.filled, Utf8Of(c))) =>
              /\ lastIter.kind = "break"
              /\ Bytes(m_rxBuffer) = lastIter.filled
        /\ (lastIter.filled # <<>> /\ lastIter.filled[1] = 255) =>
              /\ lastIter.kind = "break"
              /\ Bytes(m_rxBuffer) = Tail(lastIter.filled)

(***************************************************************************)
(* The two implementations of identify_esc_seq                             *)
(***************************************************************************)

\* No sequence of the table is a proper prefix of another one, and no two
\* entries of the table have the same event.
TableIsPrefixFree ==
    \A j, k \in DOMAIN keyDefinitions :
        (j # k) => ~IsPrefix(keyDefinitions[j].escSeq, keyDefinitions[k].escSeq)
TableEventsDiffer ==
    \A j, k \in DOMAIN keyDefinitions :
        (j # k) => keyDefinitions[j].event # keyDefinitions[k].event

\* C40: the table has no sequence that is a proper prefix of another and no
\* event twice, and on the bytes that follow an ESC in the buffer the search in
\* the table gives the result of the generated parser: the same event and the
\* same number of bytes consumed, or no match for both; so the handler reports
\* the event and leaves the buffer that the search gives.
C40_TrieEqualsSearch ==
    /\ TableIsPrefixFree
    /\ TableEventsDiffer
    /\ (/\ lastIter.kind # "none"
        /\ lastIter.mbs = <<>>
        /\ lastIter.filled # <<>>
        /\ lastIter.filled[1] = 27) =>
            LET data == Tail(lastIter.filled)
                found == identify_esc_seq_search(data)
            IN  /\ found = identify_esc_seq(data)
                /\ lastIter.kind = "event"
                /\ LastEvent.code = IF found.event > 0 THEN found.event ELSE kEscape
                /\ Bytes(m_rxBuffer) = SubSeq(data, found.consumed + 1, Len(data))

\* ESC [ 2 ; 5 ~ x was in the buffer: both give Ctrl|Insert with five bytes
\* consumed, and x is left.
C40_Witness ==
    /\ lastIter.kind = "event"
    /\ lastIter.filled = <<27, 91, 50, 59, 53, 126, 120>>
    /\ identify_esc_seq_search(Tail(lastIter.filled)) =
          [event |-> ctrlMask + Key.kInsert, consumed |-> 5]
    /\ LastEvent.code = ctrlMask + Key.kInsert
    /\ Bytes(m_rxBuffer) = <<120>>

=============================================================================
